---- MODULE Spec2Model ----
(***************************************************************************)
(* A model of dslib's intrusive AA-tree (src/src/ds_aatree.cpp,            *)
(* src/include/ds_aatree.h) driven by the integer-keyed node type of       *)
(* src/tests/aatree_test.cpp, and of its intrusive doubly-linked list      *)
(* (src/src/ds_list.cpp, src/include/ds_list.h).  DS_ASSERT is modelled as *)
(* compiled without NDEBUG: a failed assertion calls ds_assert_fail, which *)
(* does not return.                                                        *)
(*                                                                         *)
(* Nodes are numbered 1..NumNodes; node 0 is the tree's m_nil sentinel and *)
(* NULL stands for nullptr.  A link slot (a pointer to a node pointer) is  *)
(* a pair <<field, owner>>: <<"root", 0>> is &m_root, <<"left", n>> is     *)
(* n->get_ptr_to_left() and <<"right", n>> is n->get_ptr_to_right().       *)
(***************************************************************************)
EXTENDS Integers, Sequences, FiniteSets, TLC

\* ----- bounds of the model ------------------------------------------------
NumNodes == 4          \* node addresses the allocator can hand out
MaxKey   == 4          \* keys are 1..MaxKey
MaxCalls == 3          \* calls made on a path stack that is exercised on its own

\* ----- program constants --------------------------------------------------
AA_TREE_MAX_HEIGHT == 36
NIL  == 0              \* &m_nil
NULL == 0 - 1          \* nullptr

Nodes    == 1..NumNodes
AllNodes == 0..NumNodes
Keys     == 1..MaxKey

\* list nodes: &m_head, the caller's nodes, &m_tail
LHEAD     == 0
LNodes    == 1..NumNodes
LTAIL     == NumNodes + 1
LAllNodes == 0..(NumNodes + 1)

VARIABLES
  m_root,     \* AATreeImpl::m_root
  m_left,     \* AATreeNode::m_left  of every node, m_nil included
  m_right,    \* AATreeNode::m_right of every node, m_nil included
  m_level,    \* AATreeNode::m_level of every node, m_nil included
  m_val,      \* IntAATreeNode::m_val of every node
  status,     \* per node: "free" (not allocated), "held" (owned by the caller), "intree"
  alive,      \* FALSE once the tree's destructor has run
  iter,       \* the iterator object in use, if any
  last,       \* the last public call: operation, arguments, returned value
  freed,      \* nodes passed to free_node during the last call, in call order
  copied,     \* <<from, to>> pairs passed to copy_contents during the last call
  S,          \* the abstract set of keys: +k on insert(k), -k on remove(k)
  net_inserts,   \* inserts that returned true minus removes that returned true
  assert_failed, \* TRUE once ds_assert_fail has been called: the program has stopped
  sc_step        \* the position of the test program of aatree_test.cpp

\* the list of ds_list.cpp: nodes 1..NumNodes, m_head is LHEAD and m_tail is LTAIL
VARIABLES
  l_prev,     \* ListNode::m_prev of every list node, m_head and m_tail included
  l_next,     \* ListNode::m_next of every list node, m_head and m_tail included
  l_state,    \* per list node: "out" (new, the caller's), "in" (linked in the list),
              \* "removed" (the caller's again), "freed"
  l_alive,    \* FALSE once the list's destructor has run
  l_last,     \* the last call on the list: operation and arguments
  l_freed,    \* list nodes passed to the free function, in call order
  l_seq       \* the abstract sequence the list stands for

\* a path stack on its own, AATreePtrStackImpl of ds_aatree.cpp
VARIABLES
  m_stack,    \* AATreePtrStackImpl::m_stack[0 .. m_num_items-1], bottom first
  p_last,     \* the last call on the stack: operation, argument, returned pointer
  p_live,     \* the pushes not popped yet, each with the time of the push
  p_clock,    \* the number of pushes made so far
  p_calls     \* the number of calls made on the stack since it was set up

tvars == <<m_root, m_left, m_right, m_level, m_val, status, alive, iter, last, freed,
           copied, S, net_inserts, sc_step>>
lvars == <<l_prev, l_next, l_state, l_alive, l_last, l_freed, l_seq>>
svars == <<m_stack, p_last, p_live, p_clock, p_calls>>
vars == <<m_root, m_left, m_right, m_level, m_val, status, alive, iter, last, freed,
          copied, S, net_inserts, assert_failed, sc_step,
          l_prev, l_next, l_state, l_alive, l_last, l_freed, l_seq,
          m_stack, p_last, p_live, p_clock, p_calls>>

\* ----- the heap as a value --------------------------------------------------
Heap == [root |-> m_root, left |-> m_left, right |-> m_right,
         level |-> m_level, val |-> m_val]

get_left(h, n)  == h.left[n]
get_right(h, n) == h.right[n]
get_level(h, n) == h.level[n]
set_left(h, n, v)  == [h EXCEPT !.left[n]  = v]
set_right(h, n, v) == [h EXCEPT !.right[n] = v]
set_level(h, n, v) == [h EXCEPT !.level[n] = v]
get_ptr_to_left(n)  == <<"left", n>>
get_ptr_to_right(n) == <<"right", n>>
RootSlot == <<"root", 0>>

\* *link
Deref(h, link) ==
  IF link[1] = "root" THEN h.root
  ELSE IF link[1] = "left" THEN h.left[link[2]]
  ELSE h.right[link[2]]

\* *link = v
Store(h, link, v) ==
  IF link[1] = "root" THEN [h EXCEPT !.root = v]
  ELSE IF link[1] = "left" THEN [h EXCEPT !.left[link[2]] = v]
  ELSE [h EXCEPT !.right[link[2]] = v]

\* less_than_fn with its operands exchanged
less_than_fn_reversed(a, b) == b < a

\* IntAATreeNode::less_than_fn, on the two nodes' m_val
less_than_fn(a, b) == a < b

\* copy_node_fn with an empty body
copy_node_fn_nocopy(h, from, to) == h

\* copy_node_fn with its arguments taken the wrong way round
copy_node_fn_swapped(h, from, to) == [h EXCEPT !.val[from] = h.val[to]]

\* IntAATreeNode::copy_node_fn: to->set_val( from->get_val() )
copy_node_fn(h, from, to) == [h EXCEPT !.val[to] = h.val[from]]

\* AATreeNode::AATreeNode / IntAATreeNode::IntAATreeNode(val)
Construct(h, n, k) ==
  [h EXCEPT !.left[n] = NULL, !.right[n] = NULL, !.level[n] = 1, !.val[n] = k]

\* IntAATreeNode::free_node_fn: delete node.  The object ceases to exist; its
\* storage is shown in the constructor's state and with no payload.
free_node_fn(h, n) ==
  [h EXCEPT !.left[n] = NULL, !.right[n] = NULL, !.level[n] = 1, !.val[n] = 0]

\* ----- is_valid (DSLIB_CHECK_INTEGRITY) ----------------------------------------
RECURSIVE IsValidFrom(_, _, _)
\* AATreeImpl::is_valid( node, expected_level )
IsValidFrom(h, node, expected_level) ==
  LET left  == get_left(h, node)
      right == get_right(h, node)
  IN IF left = NIL /\ right = NIL THEN get_level(h, node) = 1
     ELSE IF left # NULL /\ ~IsValidFrom(h, left, expected_level - 1) THEN FALSE
     ELSE IF right = NULL THEN TRUE
     ELSE IF get_level(h, right) = expected_level - 1
       THEN IsValidFrom(h, right, expected_level - 1)
     ELSE IF get_level(h, right) # expected_level THEN FALSE
     ELSE IF get_right(h, right) # NULL
             /\ get_level(h, get_right(h, right)) # expected_level - 1 THEN FALSE
     ELSE IsValidFrom(h, right, expected_level)

\* AATreeImpl::is_valid()
is_valid(h) ==
  IF h.root = NULL THEN TRUE ELSE IsValidFrom(h, h.root, get_level(h, h.root))

\* ----- AATreePtrStack -------------------------------------------------------
\* m_stack[0 .. m_num_items-1] as a sequence.  push, top and pop are called
\* where their assertion holds: every caller tests push_ok before a push and
\* is_empty_stack before a top or a pop, and reports a failed test as a failed
\* assertion.
is_empty_stack(stk) == Len(stk) <= 0
\* DS_ASSERT( m_num_items < AA_TREE_MAX_HEIGHT ) of push
push_ok_inclusive(stk) == Len(stk) <= AA_TREE_MAX_HEIGHT
push_ok(stk) == Len(stk) < AA_TREE_MAX_HEIGHT
push(stk, p) == Append(stk, p)
top(stk) == stk[Len(stk)]
pop(stk) == SubSeq(stk, 1, Len(stk) - 1)

\* ----- skew, split, adjust_level -------------------------------------------
\* each returns the new heap and (skew, split) the returned subtree root
\* a skew that leaves t's left link on the node it lifts
skew_keepleft(h, t) ==
  IF t = NIL THEN [h |-> h, t |-> NIL]
  ELSE LET left == get_left(h, t) IN
    IF left = NIL THEN [h |-> h, t |-> t]
    ELSE IF get_level(h, t) = get_level(h, left)
      THEN [h |-> set_right(h, left, t), t |-> left]
      ELSE [h |-> h, t |-> t]

skew(h, t) ==
  IF t = NIL THEN [h |-> h, t |-> NIL]
  ELSE LET left == get_left(h, t) IN
    IF left = NIL THEN [h |-> h, t |-> t]
    ELSE IF get_level(h, t) = get_level(h, left)
      THEN LET h1 == set_left(h, t, get_right(h, left))
               h2 == set_right(h1, left, t)
           IN [h |-> h2, t |-> left]
      ELSE [h |-> h, t |-> t]

\* split that hands t the wrong child of right (its right one, not its left one)
split_wrongchild(h, t) ==
  IF t = NIL THEN [h |-> h, t |-> NIL]
  ELSE LET right == get_right(h, t) IN
    IF right = NIL THEN [h |-> h, t |-> t]
    ELSE LET x == get_right(h, right) IN
      IF x = NIL THEN [h |-> h, t |-> t]
      ELSE IF get_level(h, t) = get_level(h, x)
        THEN LET h1 == set_right(h, t, get_right(h, right))
                 h2 == set_left(h1, right, t)
                 h3 == set_level(h2, right, get_level(h2, right) + 1)
             IN [h |-> h3, t |-> right]
        ELSE [h |-> h, t |-> t]

split(h, t) ==
  IF t = NIL THEN [h |-> h, t |-> NIL]
  ELSE LET right == get_right(h, t) IN
    IF right = NIL THEN [h |-> h, t |-> t]
    ELSE LET x == get_right(h, right) IN
      IF x = NIL THEN [h |-> h, t |-> t]
      ELSE IF get_level(h, t) = get_level(h, x)
        THEN LET h1 == set_right(h, t, get_left(h, right))
                 h2 == set_left(h1, right, t)
                 h3 == set_level(h2, right, get_level(h2, right) + 1)
             IN [h |-> h3, t |-> right]
        ELSE [h |-> h, t |-> t]

\* an adjust_level that lowers the right child whenever it lowers t
adjust_level_rightalways(h, t) ==
  IF t = NIL THEN h
  ELSE LET left    == get_left(h, t)
           right   == get_right(h, t)
           t_level == get_level(h, t)
           l_level == get_level(h, left)
           r_level == get_level(h, right)
       IN IF l_level = t_level - 2 \/ r_level = t_level - 2
            THEN set_level(set_level(h, t, t_level - 1), right, t_level - 1)
            ELSE h

adjust_level(h, t) ==
  IF t = NIL THEN h
  ELSE LET left    == get_left(h, t)
           right   == get_right(h, t)
           t_level == get_level(h, t)
           l_level == get_level(h, left)
           r_level == get_level(h, right)
           r_at_same_level == (t_level = r_level)
       IN IF l_level = t_level - 2 \/ r_level = t_level - 2
            THEN LET h1 == set_level(h, t, t_level - 1)
                 IN IF r_at_same_level THEN set_level(h1, right, t_level - 1) ELSE h1
            ELSE h

\* the two assertions of adjust_level: t's child links are not nullptr
adjust_level_ok(h, t) ==
  t = NIL \/ (get_left(h, t) # NULL /\ get_right(h, t) # NULL)

\* *link = skew( *link )
SkewAt(h, link) == LET r == skew(h, Deref(h, link)) IN Store(r.h, link, r.t)
\* *link = split( *link )
SplitAt(h, link) == LET r == split(h, Deref(h, link)) IN Store(r.h, link, r.t)

\* ----- insert -----------------------------------------------------------------
RECURSIVE InsertSearch(_, _, _, _)
\* the search loop of insert: dup is TRUE when an equal node is met
InsertSearch(h, node, link, path) ==
  IF Deref(h, link) = NIL
    THEN [dup |-> FALSE, link |-> link, path |-> path, asserted |-> FALSE]
  ELSE IF ~push_ok(path)
    THEN [dup |-> FALSE, link |-> link, path |-> path, asserted |-> TRUE]
  ELSE LET cur   == Deref(h, link)
           path1 == push(path, link)
       IN IF less_than_fn(h.val[node], h.val[cur])
            THEN InsertSearch(h, node, get_ptr_to_left(cur), path1)
          ELSE IF ~less_than_fn(h.val[cur], h.val[node])
            THEN [dup |-> TRUE, link |-> link, path |-> path1, asserted |-> FALSE]
          ELSE InsertSearch(h, node, get_ptr_to_right(cur), path1)

RECURSIVE InsertRebalance(_, _)
\* the rebalancing loop of insert
InsertRebalance(h, path) ==
  IF is_empty_stack(path) THEN h
  ELSE LET link == top(path)
       IN InsertRebalance(SplitAt(SkewAt(h, link), link), pop(path))

\* insert that reports success for a duplicate
insert_dup_true(h, node) ==
  IF ~(get_left(h, node) = NULL /\ get_right(h, node) = NULL /\ get_level(h, node) = 1)
    THEN [h |-> h, ret |-> FALSE, asserted |-> TRUE]
  ELSE LET s == InsertSearch(h, node, RootSlot, <<>>) IN
    IF s.dup THEN [h |-> h, ret |-> TRUE, asserted |-> FALSE]
    ELSE LET h1 == Store(h, s.link, node)
             h2 == set_left(h1, node, NIL)
             h3 == set_right(h2, node, NIL)
         IN [h |-> InsertRebalance(h3, s.path), ret |-> TRUE, asserted |-> FALSE]

\* insert that gives the node its nil children before the search
insert_early_children(h, node) ==
  IF ~(get_left(h, node) = NULL /\ get_right(h, node) = NULL /\ get_level(h, node) = 1)
    THEN [h |-> h, ret |-> FALSE, asserted |-> TRUE]
  ELSE LET h0 == set_right(set_left(h, node, NIL), node, NIL)
           s  == InsertSearch(h0, node, RootSlot, <<>>) IN
    IF s.dup THEN [h |-> h0, ret |-> FALSE, asserted |-> FALSE]
    ELSE [h |-> InsertRebalance(Store(h0, s.link, node), s.path),
          ret |-> TRUE, asserted |-> FALSE]

\* insert as an NDEBUG build compiles it: without the three entry assertions
insert_ndebug(h, node) ==
  LET s == InsertSearch(h, node, RootSlot, <<>>) IN
  IF s.asserted THEN [h |-> h, ret |-> FALSE, asserted |-> TRUE]
  ELSE IF s.dup THEN [h |-> h, ret |-> FALSE, asserted |-> FALSE]
  ELSE LET h1 == Store(h, s.link, node)
           h2 == set_left(h1, node, NIL)
           h3 == set_right(h2, node, NIL)
       IN [h |-> InsertRebalance(h3, s.path), ret |-> TRUE, asserted |-> FALSE]

\* AATreeImpl::insert: the heap after the call, the returned value, and whether
\* an assertion failed: one of the three at the entry or the one of push (then
\* nothing else is done, and there is no returned value); path and h0 are the
\* path stack and the heap as the rebalancing loop finds them
insert(h, node) ==
  IF ~(get_left(h, node) = NULL /\ get_right(h, node) = NULL /\ get_level(h, node) = 1)
    THEN [h |-> h, ret |-> FALSE, asserted |-> TRUE, path |-> <<>>, h0 |-> h]
  ELSE LET s == InsertSearch(h, node, RootSlot, <<>>) IN
    IF s.asserted THEN [h |-> h, ret |-> FALSE, asserted |-> TRUE, path |-> <<>>, h0 |-> h]
    ELSE IF s.dup THEN [h |-> h, ret |-> FALSE, asserted |-> FALSE, path |-> s.path, h0 |-> h]
    ELSE LET h1 == Store(h, s.link, node)
             h2 == set_left(h1, node, NIL)
             h3 == set_right(h2, node, NIL)
         IN [h |-> InsertRebalance(h3, s.path), ret |-> TRUE, asserted |-> FALSE,
             path |-> s.path, h0 |-> h3]

\* ----- find, contains, is_empty ---------------------------------------------
RECURSIVE FindFrom(_, _, _)
FindFrom(h, key, p) ==
  IF p = NIL THEN NULL
  ELSE IF less_than_fn(key, h.val[p]) THEN FindFrom(h, key, get_left(h, p))
  ELSE IF ~less_than_fn(h.val[p], key) THEN p
  ELSE FindFrom(h, key, get_right(h, p))

find(h, key) == FindFrom(h, key, h.root)
contains(h, key) == find(h, key) # NULL

\* is_empty that compares root with nullptr
is_empty_nullroot(h) == h.root = NULL

is_empty(h) == h.root = NIL

\* ----- remove -----------------------------------------------------------------
RECURSIVE RemoveSearch_swapped(_, _, _, _)
\* the search loop of remove with the two directions exchanged
RemoveSearch_swapped(h, key, link, path) ==
  IF Deref(h, link) = NIL THEN [link |-> link, path |-> path, asserted |-> FALSE]
  ELSE IF ~push_ok(path) THEN [link |-> link, path |-> path, asserted |-> TRUE]
  ELSE LET cur   == Deref(h, link)
           path1 == push(path, link)
       IN IF less_than_fn(key, h.val[cur])
            THEN RemoveSearch_swapped(h, key, get_ptr_to_right(cur), path1)
          ELSE IF ~less_than_fn(h.val[cur], key)
            THEN [link |-> link, path |-> path1, asserted |-> FALSE]
          ELSE RemoveSearch_swapped(h, key, get_ptr_to_left(cur), path1)

RECURSIVE RemoveSearch_onetest(_, _, _, _)
\* a search that takes every node the key is not less than for a match
RemoveSearch_onetest(h, key, link, path) ==
  IF Deref(h, link) = NIL THEN [link |-> link, path |-> path, asserted |-> FALSE]
  ELSE IF ~push_ok(path) THEN [link |-> link, path |-> path, asserted |-> TRUE]
  ELSE LET cur   == Deref(h, link)
           path1 == push(path, link)
       IN IF less_than_fn(key, h.val[cur])
            THEN RemoveSearch_onetest(h, key, get_ptr_to_left(cur), path1)
          ELSE [link |-> link, path |-> path1, asserted |-> FALSE]

RECURSIVE RemoveSearch(_, _, _, _)
\* the search loop of remove: stops with *link = nil or *link the matching node
RemoveSearch(h, key, link, path) ==
  IF Deref(h, link) = NIL THEN [link |-> link, path |-> path, asserted |-> FALSE]
  ELSE IF ~push_ok(path) THEN [link |-> link, path |-> path, asserted |-> TRUE]
  ELSE LET cur   == Deref(h, link)
           path1 == push(path, link)
       IN IF less_than_fn(key, h.val[cur])
            THEN RemoveSearch(h, key, get_ptr_to_left(cur), path1)
          ELSE IF ~less_than_fn(h.val[cur], key)
            THEN [link |-> link, path |-> path1, asserted |-> FALSE]
          ELSE RemoveSearch(h, key, get_ptr_to_right(cur), path1)

RECURSIVE VictimSearch_toofar(_, _, _)
\* a victim loop that stops one link too late, at the nil sentinel
VictimSearch_toofar(h, link, path) ==
  IF Deref(h, link) # NIL
    THEN IF ~push_ok(path) THEN [link |-> link, path |-> path, asserted |-> TRUE]
         ELSE VictimSearch_toofar(h, get_ptr_to_left(Deref(h, link)), push(path, link))
    ELSE [link |-> link, path |-> path, asserted |-> FALSE]

RECURSIVE VictimSearch_pushlast(_, _, _)
\* a victim loop that also pushes the slot that holds the victim
VictimSearch_pushlast(h, link, path) ==
  IF ~push_ok(path) THEN [link |-> link, path |-> path, asserted |-> TRUE]
  ELSE IF get_left(h, Deref(h, link)) # NIL
    THEN VictimSearch_pushlast(h, get_ptr_to_left(Deref(h, link)), push(path, link))
  ELSE [link |-> link, path |-> push(path, link), asserted |-> FALSE]

RECURSIVE VictimSearch(_, _, _)
\* case 3: the loop that goes to the leftmost node of t's right subtree
VictimSearch(h, link, path) ==
  IF get_left(h, Deref(h, link)) # NIL
    THEN IF ~push_ok(path) THEN [link |-> link, path |-> path, asserted |-> TRUE]
         ELSE VictimSearch(h, get_ptr_to_left(Deref(h, link)), push(path, link))
    ELSE [link |-> link, path |-> path, asserted |-> FALSE]

RECURSIVE RemoveFixup(_, _)
\* the fix-up loop of remove: the heap it leaves, and whether an assertion of
\* adjust_level failed (the loop stops there)
RemoveFixup(h, path) ==
  IF is_empty_stack(path) THEN [h |-> h, asserted |-> FALSE]
  ELSE LET link == top(path) IN
    IF ~adjust_level_ok(h, Deref(h, link)) THEN [h |-> h, asserted |-> TRUE]
    ELSE LET h1 == adjust_level(h, Deref(h, link))
         IN RemoveFixup(SplitAt(SkewAt(h1, link), link), pop(path))

\* what remove hands back once a node has been unlinked and freed; path and h0
\* are the path stack and the heap as the fix-up loop finds them
RemoveDone(h, path, freed_log, copied_log) ==
  LET f == RemoveFixup(h, path)
  IN [h |-> f.h, ret |-> ~f.asserted, asserted |-> f.asserted,
      freed |-> freed_log, copied |-> copied_log, path |-> path, h0 |-> h]

\* what remove hands back when an assertion fails before the fix-up loop
RemoveAsserted(h, freed_log, copied_log) ==
  [h |-> h, ret |-> FALSE, asserted |-> TRUE, freed |-> freed_log, copied |-> copied_log,
   path |-> <<>>, h0 |-> h]

\* remove that also copies the child into t when t has a right child only
remove_copy_onechild(h, key) ==
  LET s == RemoveSearch(h, key, RootSlot, <<>>) IN
  IF s.asserted THEN RemoveAsserted(h, <<>>, <<>>)
  ELSE IF Deref(h, s.link) = NIL
    THEN [h |-> h, ret |-> FALSE, asserted |-> FALSE, freed |-> <<>>, copied |-> <<>>,
          path |-> s.path, h0 |-> h]
  ELSE LET t == Deref(h, s.link) IN
    IF get_left(h, t) = NIL /\ get_right(h, t) = NIL
      THEN RemoveDone(free_node_fn(Store(h, s.link, NIL), t), s.path, <<t>>, <<>>)
    ELSE IF get_left(h, t) = NIL
      THEN LET h1 == copy_node_fn(h, get_right(h, t), t)
               h2 == Store(h1, s.link, get_right(h1, t))
           IN RemoveDone(free_node_fn(h2, t), s.path, <<t>>, <<<<get_right(h, t), t>>>>)
    ELSE IF get_right(h, t) = NIL
      THEN RemoveDone(free_node_fn(Store(h, s.link, get_left(h, t)), t), s.path, <<t>>, <<>>)
    ELSE IF ~push_ok(s.path) THEN RemoveAsserted(h, <<>>, <<>>)
    ELSE LET v == VictimSearch(h, get_ptr_to_right(Deref(h, s.link)), push(s.path, s.link))
    IN IF v.asserted THEN RemoveAsserted(h, <<>>, <<>>)
       ELSE LET victim == Deref(h, v.link)
                h1     == copy_node_fn(h, victim, t)
       IN IF ~(victim # NIL /\ get_left(h1, victim) # NULL /\ get_right(h1, victim) # NULL)
            THEN RemoveAsserted(h1, <<>>, <<<<victim, t>>>>)
          ELSE LET h2 == Store(h1, v.link, get_right(h1, victim))
                   h3 == free_node_fn(h2, victim)
               IN RemoveDone(h3, v.path, <<victim>>, <<<<victim, t>>>>)

\* AATreeImpl::remove: the heap after the call, the returned value, whether an
\* assertion failed (then the call stops there and returns nothing), the nodes
\* passed to free_node and the pairs passed to copy_contents
remove(h, key) ==
  LET s == RemoveSearch(h, key, RootSlot, <<>>) IN
  IF s.asserted THEN RemoveAsserted(h, <<>>, <<>>)
  ELSE IF Deref(h, s.link) = NIL
    THEN [h |-> h, ret |-> FALSE, asserted |-> FALSE, freed |-> <<>>, copied |-> <<>>,
          path |-> s.path, h0 |-> h]
  ELSE LET t == Deref(h, s.link) IN
    IF get_left(h, t) = NIL /\ get_right(h, t) = NIL
      THEN RemoveDone(free_node_fn(Store(h, s.link, NIL), t), s.path, <<t>>, <<>>)
    ELSE IF get_left(h, t) = NIL
      THEN RemoveDone(free_node_fn(Store(h, s.link, get_right(h, t)), t), s.path, <<t>>, <<>>)
    ELSE IF get_right(h, t) = NIL
      THEN RemoveDone(free_node_fn(Store(h, s.link, get_left(h, t)), t), s.path, <<t>>, <<>>)
    ELSE IF ~push_ok(s.path) THEN RemoveAsserted(h, <<>>, <<>>)
    ELSE LET v == VictimSearch(h, get_ptr_to_right(Deref(h, s.link)), push(s.path, s.link))
    IN IF v.asserted THEN RemoveAsserted(h, <<>>, <<>>)
       ELSE LET victim == Deref(h, v.link)
                h1     == copy_node_fn(h, victim, t)
       IN IF ~(victim # NIL /\ get_left(h1, victim) # NULL /\ get_right(h1, victim) # NULL)
            THEN RemoveAsserted(h1, <<>>, <<<<victim, t>>>>)
          ELSE LET h2 == Store(h1, v.link, get_right(h1, victim))
                   h3 == free_node_fn(h2, victim)
               IN RemoveDone(h3, v.path, <<victim>>, <<<<victim, t>>>>)

\* ----- in-order iterator -----------------------------------------------------
RECURSIVE IterInitLoop(_, _, _)
\* AATreeIterImpl::init: push the leftmost spine from n
IterInitLoop(h, stk, n) ==
  IF n = NIL THEN [stack |-> stk, asserted |-> FALSE]
  ELSE IF ~push_ok(stk) THEN [stack |-> stk, asserted |-> TRUE]
  ELSE IterInitLoop(h, push(stk, n), get_left(h, n))

\* init that pushes the root only
iter_init_rootonly(h) ==
  [stack |-> IF h.root # NIL THEN push(<<>>, h.root) ELSE <<>>, asserted |-> FALSE]

iter_init(h) == IterInitLoop(h, <<>>, h.root)

\* AATreeIterImpl::has_next
iter_has_next(stk) == ~is_empty_stack(stk)

RECURSIVE IterCase1Loop(_, _, _)
\* next(), case 1: push the left spine below the right child
IterCase1Loop(h, stk, next) ==
  IF get_left(h, next) = NIL THEN [stack |-> stk, asserted |-> FALSE]
  ELSE IF ~push_ok(stk) THEN [stack |-> stk, asserted |-> TRUE]
  ELSE IterCase1Loop(h, push(stk, get_left(h, next)), get_left(h, next))

\* a case 3 that stops at the first node above the parent
IterCase3Loop_once(h, stk, parent) ==
  IF is_empty_stack(stk) THEN [stack |-> stk, asserted |-> FALSE]
  ELSE LET pp == top(stk) IN
    IF get_left(h, pp) = parent THEN [stack |-> stk, asserted |-> FALSE]
    ELSE IF get_right(h, pp) # parent THEN [stack |-> stk, asserted |-> TRUE]
    ELSE [stack |-> stk, asserted |-> FALSE]

RECURSIVE IterCase3Loop(_, _, _)
\* next(), case 3: go up through right links; parent is the node popped last
IterCase3Loop(h, stk, parent) ==
  IF is_empty_stack(stk) THEN [stack |-> stk, asserted |-> FALSE]
  ELSE LET pp == top(stk) IN
    IF get_left(h, pp) = parent THEN [stack |-> stk, asserted |-> FALSE]
    ELSE IF get_right(h, pp) # parent THEN [stack |-> stk, asserted |-> TRUE]
    ELSE IterCase3Loop(h, pop(stk), pp)

\* AATreeIterImpl::next: the stack after the call, the node returned, and
\* whether an assertion failed
iter_next(h, stk) ==
  IF ~iter_has_next(stk) THEN [stack |-> stk, node |-> NULL, asserted |-> TRUE]
  ELSE LET node == top(stk) IN
    IF get_right(h, node) # NIL
      THEN IF ~push_ok(stk) THEN [stack |-> stk, node |-> NULL, asserted |-> TRUE]
           ELSE LET next == get_right(h, node)
                    r    == IterCase1Loop(h, push(stk, next), next)
                IN [stack |-> r.stack, node |-> IF r.asserted THEN NULL ELSE node,
                    asserted |-> r.asserted]
    ELSE LET stk1 == pop(stk) IN
      IF is_empty_stack(stk1) THEN [stack |-> stk1, node |-> node, asserted |-> FALSE]
      ELSE LET parent == top(stk1) IN
        IF node = get_left(h, parent)
          THEN [stack |-> stk1, node |-> node, asserted |-> FALSE]
        ELSE IF node # get_right(h, parent)
          THEN [stack |-> stk1, node |-> NULL, asserted |-> TRUE]
        ELSE LET r == IterCase3Loop(h, pop(stk1), parent)
             IN [stack |-> r.stack, node |-> IF r.asserted THEN NULL ELSE node,
                 asserted |-> r.asserted]

\* ----- postfix iterator -------------------------------------------------------
\* A stack entry is a node pointer whose two low bits are flags.  Node n lives
\* at the 4-aligned address 4 * n.
LEFT_VISITED  == 1
RIGHT_VISITED == 2
AddrOf(n) == 4 * n
NodeAt(p) == p \div 4

\* ptr_val & CLEAN_PTR_MASK
clean_ptr(p) == p - (p % 4)
\* ptr_val | LEFT_VISITED
mark_left_visited(p) == IF p % 2 = 0 THEN p + LEFT_VISITED ELSE p
\* ptr_val | RIGHT_VISITED
mark_right_visited(p) == IF (p \div 2) % 2 = 0 THEN p + RIGHT_VISITED ELSE p

is_left_visited(h, p) ==
  IF get_left(h, NodeAt(clean_ptr(p))) = NIL THEN TRUE
  ELSE p % 2 # 0

\* is_right_visited that tests the LEFT_VISITED bit
is_right_visited_leftbit(h, p) ==
  IF get_right(h, NodeAt(clean_ptr(p))) = NIL THEN TRUE
  ELSE p % 2 # 0

is_right_visited(h, p) ==
  IF get_right(h, NodeAt(clean_ptr(p))) = NIL THEN TRUE
  ELSE (p \div 2) % 2 # 0

RECURSIVE PostfixDescend_preferright(_, _, _)
\* a descent loop that prefers right links
PostfixDescend_preferright(h, stk, n) ==
  IF n = NIL THEN [stack |-> stk, asserted |-> FALSE]
  ELSE IF ~push_ok(stk) THEN [stack |-> stk, asserted |-> TRUE]
  ELSE LET right == get_right(h, n)
       IN PostfixDescend_preferright(h, push(stk, AddrOf(n)),
                         IF right # NIL THEN right ELSE get_left(h, n))

RECURSIVE PostfixDescend(_, _, _)
\* the descent loop shared by init and next: prefer left links
PostfixDescend(h, stk, n) ==
  IF n = NIL THEN [stack |-> stk, asserted |-> FALSE]
  ELSE IF ~push_ok(stk) THEN [stack |-> stk, asserted |-> TRUE]
  ELSE LET left == get_left(h, n)
       IN PostfixDescend(h, push(stk, AddrOf(n)),
                         IF left # NIL THEN left ELSE get_right(h, n))

\* AATreePostfixIterImpl::init
postfix_init(h) ==
  LET d   == PostfixDescend(h, <<>>, h.root)
      stk == d.stack
  IN [stack |-> stk,
      asserted |-> d.asserted \/
                   ~(is_empty_stack(stk) \/
                     (get_left(h, NodeAt(top(stk))) = NIL /\
                      get_right(h, NodeAt(top(stk))) = NIL))]

\* AATreePostfixIterImpl::has_next
postfix_has_next(stk) == ~is_empty_stack(stk)

\* AATreePostfixIterImpl::next
postfix_next(h, stk) ==
  IF ~postfix_has_next(stk) THEN [stack |-> stk, node |-> NULL, asserted |-> TRUE]
  ELSE LET cur0 == top(stk)
           stk1 == pop(stk)
  IN IF ~(is_left_visited(h, cur0) /\ is_right_visited(h, cur0))
       THEN [stack |-> stk1, node |-> NULL, asserted |-> TRUE]
     ELSE LET cur == clean_ptr(cur0) IN
       IF is_empty_stack(stk1)
         THEN [stack |-> stk1, node |-> NodeAt(cur), asserted |-> FALSE]
       ELSE LET parent0 == top(stk1)
                stk2    == pop(stk1)
                pnode   == NodeAt(clean_ptr(parent0))
                isleft  == (cur = AddrOf(get_left(h, pnode)))
                isright == (cur = AddrOf(get_right(h, pnode)))
       IN IF ~isleft /\ ~isright
            THEN [stack |-> stk2, node |-> NULL, asserted |-> TRUE]
          ELSE LET stk3 == IF isleft THEN push(stk2, mark_left_visited(parent0))
                                     ELSE push(stk2, mark_right_visited(parent0))
                   parent == top(stk3)
          IN IF ~is_left_visited(h, parent)
               THEN [stack |-> stk3, node |-> NULL, asserted |-> TRUE]
             ELSE IF ~is_right_visited(h, parent)
               THEN LET n == get_right(h, NodeAt(clean_ptr(parent)))
                        d == PostfixDescend(h, stk3, n)
                    IN [stack |-> d.stack,
                        node |-> IF n = NIL \/ d.asserted THEN NULL ELSE NodeAt(cur),
                        asserted |-> n = NIL \/ d.asserted]
             ELSE [stack |-> stk3, node |-> NodeAt(cur), asserted |-> FALSE]

\* ----- destructor -------------------------------------------------------------
RECURSIVE DestroyLoop(_, _, _)
\* the loop of ~AATreeImpl: next(), then free_node on the node returned
DestroyLoop(h, stk, log) ==
  IF ~postfix_has_next(stk) THEN [h |-> h, freed |-> log, asserted |-> FALSE]
  ELSE LET r == postfix_next(h, stk) IN
    IF r.asserted THEN [h |-> h, freed |-> log, asserted |-> TRUE]
    ELSE DestroyLoop(free_node_fn(h, r.node), r.stack, Append(log, r.node))

RECURSIVE DestroyLoopInOrder(_, _, _)
DestroyLoopInOrder(h, stk, log) ==
  IF ~iter_has_next(stk) THEN [h |-> h, freed |-> log, asserted |-> FALSE]
  ELSE LET r == iter_next(h, stk) IN
    IF r.asserted THEN [h |-> h, freed |-> log, asserted |-> TRUE]
    ELSE DestroyLoopInOrder(free_node_fn(h, r.node), r.stack, Append(log, r.node))

\* a destructor that walks the tree with the in-order iterator
destroy_inorder(h) == DestroyLoopInOrder(h, iter_init(h).stack, <<>>)

RECURSIVE DestroyLoopFreeFirst(_, _, _)
DestroyLoopFreeFirst(h, stk, log) ==
  IF ~postfix_has_next(stk) THEN [h |-> h, freed |-> log, asserted |-> FALSE]
  ELSE LET n  == NodeAt(clean_ptr(top(stk)))
           h1 == free_node_fn(h, n)
           r  == postfix_next(h1, stk)
       IN IF r.asserted THEN [h |-> h1, freed |-> Append(log, n), asserted |-> TRUE]
          ELSE DestroyLoopFreeFirst(h1, r.stack, Append(log, n))

\* a destructor that frees the node on top of the iterator's stack and only
\* then calls next(), which reads that node
destroy_free_before_next(h) == DestroyLoopFreeFirst(h, postfix_init(h).stack, <<>>)

\* a destructor with an empty body
destroy_nothing(h) == [h |-> h, freed |-> <<>>, asserted |-> FALSE]

\* AATreeImpl::~AATreeImpl: the heap it leaves, the nodes passed to free_node
\* in call order, and whether an assertion of the iterator failed
destroy(h) ==
  LET it == postfix_init(h) IN
  IF it.asserted THEN [h |-> h, freed |-> <<>>, asserted |-> TRUE]
  ELSE DestroyLoop(h, it.stack, <<>>)

\* ----- the list of ds_list.cpp ---------------------------------------------------
LHeap == [prev |-> l_prev, next |-> l_next]

\* IntListNode::free_int_list_node: delete node.  The object ceases to exist;
\* its storage is shown with both links cleared.
free_int_list_node(lh, n) == [lh EXCEPT !.prev[n] = NULL, !.next[n] = NULL]

list_is_empty(lh) == lh.next[LHEAD] = LTAIL
list_get_first(lh) == IF list_is_empty(lh) THEN NULL ELSE lh.next[LHEAD]
list_get_last(lh) == IF list_is_empty(lh) THEN NULL ELSE lh.prev[LTAIL]

\* ListImpl::next, ListImpl::prev
list_next(lh, node) == IF lh.next[node] = LTAIL THEN NULL ELSE lh.next[node]
list_prev(lh, node) == IF lh.prev[node] = LHEAD THEN NULL ELSE lh.prev[node]

\* DS_ASSERT( m_tail.get_prev() != nullptr ) of append
list_append_ok(lh) == lh.prev[LTAIL] # NULL
\* DS_ASSERT( m_head.get_next() != nullptr ) of prepend
list_prepend_ok(lh) == lh.next[LHEAD] # NULL

\* ListImpl::append
list_append(lh, node) ==
  LET h1 == [lh EXCEPT !.prev[node] = lh.prev[LTAIL]]
      h2 == [h1 EXCEPT !.next[node] = LTAIL]
      h3 == [h2 EXCEPT !.next[h2.prev[LTAIL]] = node]
  IN [h3 EXCEPT !.prev[LTAIL] = node]

\* ListImpl::prepend
list_prepend(lh, node) ==
  LET h1 == [lh EXCEPT !.prev[node] = LHEAD]
      h2 == [h1 EXCEPT !.next[node] = lh.next[LHEAD]]
      h3 == [h2 EXCEPT !.prev[h2.next[LHEAD]] = node]
  IN [h3 EXCEPT !.next[LHEAD] = node]

\* insert_after that leaves the successor's prev link as it was
list_insert_after_noback(lh, node_to_insert, existing) ==
  LET h1 == [lh EXCEPT !.prev[node_to_insert] = existing]
      h2 == [h1 EXCEPT !.next[node_to_insert] = h1.next[existing]]
  IN [h2 EXCEPT !.next[existing] = node_to_insert]

\* ListImpl::insert_after
list_insert_after(lh, node_to_insert, existing) ==
  LET h1 == [lh EXCEPT !.prev[node_to_insert] = existing]
      h2 == [h1 EXCEPT !.next[node_to_insert] = h1.next[existing]]
      h3 == [h2 EXCEPT !.prev[h2.next[existing]] = node_to_insert]
  IN [h3 EXCEPT !.next[existing] = node_to_insert]

\* insert_before that puts the node on the other side of existing
list_insert_before_otherside(lh, node_to_insert, existing) ==
  list_insert_after(lh, node_to_insert, existing)

\* ListImpl::insert_before
list_insert_before(lh, node_to_insert, existing) ==
  LET h1 == [lh EXCEPT !.prev[node_to_insert] = lh.prev[existing]]
      h2 == [h1 EXCEPT !.next[node_to_insert] = existing]
      h3 == [h2 EXCEPT !.next[h2.prev[existing]] = node_to_insert]
  IN [h3 EXCEPT !.prev[existing] = node_to_insert]

\* ListImpl::remove
list_remove(lh, node_to_remove) ==
  LET pred == lh.prev[node_to_remove]
      succ == lh.next[node_to_remove]
      h1   == [lh EXCEPT !.next[pred] = succ]
      h2   == [h1 EXCEPT !.prev[succ] = pred]
      h3   == [h2 EXCEPT !.prev[node_to_remove] = NULL]
  IN [h3 EXCEPT !.next[node_to_remove] = NULL]

RECURSIVE ListCount(_, _, _)
\* the loop of get_size
ListCount(lh, p, count) ==
  IF p = NULL THEN count ELSE ListCount(lh, list_next(lh, p), count + 1)

\* ListImpl::get_size
list_get_size(lh) == ListCount(lh, list_get_first(lh), 0)

RECURSIVE ListDestroyReadAfter(_, _, _)
ListDestroyReadAfter(lh, p, log) ==
  IF p = NULL THEN [lh |-> lh, freed |-> log]
  ELSE LET h1 == free_int_list_node(lh, p)
       IN ListDestroyReadAfter(h1, list_next(h1, p), Append(log, p))

\* a destructor that reads a node's successor after the node has been freed
list_destroy_readafter(lh) == ListDestroyReadAfter(lh, list_get_first(lh), <<>>)

RECURSIVE ListDestroyLoop(_, _, _)
\* the loop of ~ListImpl: succ = next( p ), then the free function on p
ListDestroyLoop(lh, p, log) ==
  IF p = NULL THEN [lh |-> lh, freed |-> log]
  ELSE LET succ == list_next(lh, p)
       IN ListDestroyLoop(free_int_list_node(lh, p), succ, Append(log, p))

\* ListImpl::~ListImpl: the links it leaves and the nodes freed, in call order
list_destroy(lh) == ListDestroyLoop(lh, list_get_first(lh), <<>>)

\* ----- the state machine ------------------------------------------------------
NoIter == [kind |-> "none", stack |-> <<>>, out |-> <<>>]
LCall(op, node, existing) == [op |-> op, node |-> node, existing |-> existing]
Call(op, key, node, ret) == [op |-> op, key |-> key, node |-> node, ret |-> ret]

SetHeap(h) ==
  /\ m_root'  = h.root
  /\ m_left'  = h.left
  /\ m_right' = h.right
  /\ m_level' = h.level
  /\ m_val'   = h.val

\* ListImpl::ListImpl and the caller's list nodes, each as ListNode::ListNode
\* leaves it
ListInit ==
  /\ l_prev  = [n \in LAllNodes |-> IF n = LTAIL THEN LHEAD ELSE NULL]
  /\ l_next  = [n \in LAllNodes |-> IF n = LHEAD THEN LTAIL ELSE NULL]
  /\ l_state = [n \in LNodes |-> "out"]
  /\ l_alive = TRUE
  /\ l_last  = LCall("ctor", NULL, NULL)
  /\ l_freed = <<>>
  /\ l_seq   = <<>>

\* a call on the path stack: p is the pointer pushed, ret the pointer returned
PCall(op, p, ret) == [op |-> op, p |-> p, ret |-> ret]

\* a stack that holds the n pointers fill[1..n], pushed in that order
StackOf(fill) ==
  /\ m_stack = fill
  /\ p_last  = PCall("ctor", NULL, NULL)
  /\ p_live  = {[t |-> i, p |-> fill[i]] : i \in 1..Len(fill)}
  /\ p_clock = Len(fill)
  /\ p_calls = 0

\* AATreePtrStackImpl::AATreePtrStackImpl: m_num_items( 0 )
StackInit == StackOf(<<>>)

\* AATreeImpl::AATreeImpl on an arena of nodes that are not allocated yet
TreeInit ==
  /\ m_root  = NIL
  /\ m_left  = [n \in AllNodes |-> NULL]
  /\ m_right = [n \in AllNodes |-> NULL]
  /\ m_level = [n \in AllNodes |-> IF n = NIL THEN 0 ELSE 1]
  /\ m_val   = [n \in AllNodes |-> 0]
  /\ status  = [n \in Nodes |-> "free"]
  /\ alive   = TRUE
  /\ iter    = NoIter
  /\ last    = Call("ctor", 0, NULL, TRUE)
  /\ freed   = <<>>
  /\ copied  = <<>>
  /\ S       = {}
  /\ net_inserts = 0
  /\ sc_step = 0

Init ==
  /\ TreeInit
  /\ ListInit
  /\ StackInit
  /\ assert_failed = FALSE

\* nodes that an insert rejected and the caller has not dealt with yet
HeldNodes == {n \in DOMAIN status : status[n] = "held"}

\* operator new: a first-fit allocator hands out the lowest free node
Allocatable(n) ==
  /\ status[n] = "free"
  /\ \A m \in DOMAIN status : m < n => status[m] # "free"

\* the nodes of a free_node log become free storage
AfterFree(log) ==
  [n \in DOMAIN status |->
     IF \E i \in 1..Len(log) : log[i] = n THEN "free" ELSE status[n]]

\* itree.insert( new IntAATreeNode( k ) ), or set_val( k ) and insert of the
\* node that the previous insert rejected.  A caller deals with a rejected
\* node (inserts it under another key, or deletes it) before its next call.
Insert(n, k) ==
  /\ alive /\ ~assert_failed /\ iter.kind = "none"
  /\ \/ status[n] = "held"
     \/ HeldNodes = {} /\ Allocatable(n)
  /\ \E r \in {insert(Construct(Heap, n, k), n)} :
       /\ SetHeap(r.h)
       /\ status' = [status EXCEPT ![n] = IF r.ret THEN "intree" ELSE "held"]
       /\ last' = Call("insert", k, n, r.ret)
       /\ net_inserts' = IF r.ret THEN net_inserts + 1 ELSE net_inserts
       /\ assert_failed' = r.asserted
  /\ freed' = <<>>
  /\ copied' = <<>>
  /\ S' = S \cup {k}
  /\ UNCHANGED <<alive, iter, sc_step>>
  /\ UNCHANGED <<lvars, svars>>

\* the caller deletes the node that insert rejected
DeleteRejected(n) ==
  /\ alive /\ ~assert_failed /\ status[n] = "held"
  /\ SetHeap(free_node_fn(Heap, n))
  /\ status' = [status EXCEPT ![n] = "free"]
  /\ last' = Call("delete", 0, n, TRUE)
  /\ freed' = <<>>
  /\ copied' = <<>>
  /\ UNCHANGED <<alive, iter, S, net_inserts, assert_failed, sc_step>>
  /\ UNCHANGED <<lvars, svars>>

\* itree.remove( IntAATreeNode( k ) )
Remove(k) ==
  /\ alive /\ ~assert_failed /\ iter.kind = "none"
  /\ HeldNodes = {}
  /\ \E r \in {remove(Heap, k)} :
       /\ SetHeap(r.h)
       /\ status' = AfterFree(r.freed)
       /\ last' = Call("remove", k, NULL, r.ret)
       /\ freed' = r.freed
       /\ copied' = r.copied
       /\ net_inserts' = IF r.ret THEN net_inserts - 1 ELSE net_inserts
       /\ assert_failed' = r.asserted
  /\ S' = S \ {k}
  /\ UNCHANGED <<alive, iter, sc_step>>
  /\ UNCHANGED <<lvars, svars>>

\* itree.iterator()
IterInit ==
  /\ alive /\ ~assert_failed /\ iter.kind = "none"
  /\ HeldNodes = {}
  /\ \E r \in {iter_init(Heap)} :
       /\ iter' = [kind |-> "inorder", stack |-> r.stack, out |-> <<>>]
       /\ last' = Call("iterator", 0, NULL, ~r.asserted)
       /\ assert_failed' = r.asserted
  /\ freed' = <<>> /\ copied' = <<>>
  /\ UNCHANGED <<m_root, m_left, m_right, m_level, m_val, status, alive, S, net_inserts, sc_step>>
  /\ UNCHANGED <<lvars, svars>>

\* it.next() after it.has_next() returned true
IterNext ==
  /\ alive /\ ~assert_failed /\ iter.kind = "inorder"
  /\ iter_has_next(iter.stack)
  /\ \E r \in {iter_next(Heap, iter.stack)} :
       /\ iter' = [iter EXCEPT !.stack = r.stack, !.out = Append(@, r.node)]
       /\ last' = Call("next", 0, r.node, ~r.asserted)
       /\ assert_failed' = r.asserted
  /\ freed' = <<>> /\ copied' = <<>>
  /\ UNCHANGED <<m_root, m_left, m_right, m_level, m_val, status, alive, S, net_inserts, sc_step>>
  /\ UNCHANGED <<lvars, svars>>

\* itree.postfix_iterator()
PostfixInit ==
  /\ alive /\ ~assert_failed /\ iter.kind = "none"
  /\ HeldNodes = {}
  /\ \E r \in {postfix_init(Heap)} :
       /\ iter' = [kind |-> "postfix", stack |-> r.stack, out |-> <<>>]
       /\ last' = Call("postfix_iterator", 0, NULL, ~r.asserted)
       /\ assert_failed' = r.asserted
  /\ freed' = <<>> /\ copied' = <<>>
  /\ UNCHANGED <<m_root, m_left, m_right, m_level, m_val, status, alive, S, net_inserts, sc_step>>
  /\ UNCHANGED <<lvars, svars>>

\* it.next() after it.has_next() returned true
PostfixNext ==
  /\ alive /\ ~assert_failed /\ iter.kind = "postfix"
  /\ postfix_has_next(iter.stack)
  /\ \E r \in {postfix_next(Heap, iter.stack)} :
       /\ iter' = [iter EXCEPT !.stack = r.stack, !.out = Append(@, r.node)]
       /\ last' = Call("next", 0, r.node, ~r.asserted)
       /\ assert_failed' = r.asserted
  /\ freed' = <<>> /\ copied' = <<>>
  /\ UNCHANGED <<m_root, m_left, m_right, m_level, m_val, status, alive, S, net_inserts, sc_step>>
  /\ UNCHANGED <<lvars, svars>>

\* the iterator object goes out of scope
IterRelease ==
  /\ alive /\ ~assert_failed /\ iter.kind # "none"
  /\ iter' = NoIter
  /\ last' = Call("release", 0, NULL, TRUE)
  /\ freed' = <<>> /\ copied' = <<>>
  /\ UNCHANGED <<m_root, m_left, m_right, m_level, m_val, status, alive, S, net_inserts,
                 assert_failed, sc_step>>
  /\ UNCHANGED <<lvars, svars>>

\* ~AATree, with or without a rejected node still in the caller's hands
Destroy ==
  /\ alive /\ ~assert_failed /\ iter.kind = "none"
  /\ \E r \in {destroy(Heap)} :
       /\ SetHeap(r.h)
       /\ status' = AfterFree(r.freed)
       /\ last' = Call("dtor", 0, NULL, ~r.asserted)
       /\ freed' = r.freed
       /\ assert_failed' = r.asserted
  /\ alive' = FALSE
  /\ copied' = <<>>
  /\ UNCHANGED <<iter, S, net_inserts, sc_step>>
  /\ UNCHANGED <<lvars, svars>>

Next ==
  \/ \E n \in Nodes, k \in Keys : Insert(n, k)
  \/ \E n \in Nodes : DeleteRejected(n)
  \/ \E k \in Keys : Remove(k)
  \/ IterInit
  \/ IterNext
  \/ PostfixInit
  \/ PostfixNext
  \/ IterRelease
  \/ Destroy

Spec == Init /\ [][Next]_vars

\* itree.insert( p ) with p a node that is linked in the tree: a call outside
\* the contract of insert
InsertLinked(n) ==
  /\ alive /\ ~assert_failed /\ iter.kind = "none"
  /\ HeldNodes = {}
  /\ status[n] = "intree"
  /\ \E r \in {insert(Heap, n)} :
       /\ SetHeap(r.h)
       /\ last' = Call("insert_linked", m_val[n], n, r.ret)
       /\ assert_failed' = r.asserted
  /\ freed' = <<>>
  /\ copied' = <<>>
  /\ UNCHANGED <<status, alive, iter, S, net_inserts, sc_step>>
  /\ UNCHANGED <<lvars, svars>>

NextMisuse ==
  \/ Next
  \/ \E n \in Nodes : InsertLinked(n)

SpecMisuse == Init /\ [][NextMisuse]_vars

\* ----- the test program on TEST_VALS -------------------------------------------
\* test_insert, test_remove and test_iterator of aatree_test.cpp as one program:
\* the ten inserts, then the ten removes in the same order (sc_step counts the
\* calls made), with contains, is_valid and in-order walks between any two of
\* them.
TEST_VALS == <<16, 53, 3, 98, 79, 80, 17, 11, 42, 86>>
NUM_QUERIES == 100
ScAllNodes == 0..Len(TEST_VALS)

ScInit ==
  /\ m_root  = NIL
  /\ m_left  = [n \in ScAllNodes |-> NULL]
  /\ m_right = [n \in ScAllNodes |-> NULL]
  /\ m_level = [n \in ScAllNodes |-> IF n = NIL THEN 0 ELSE 1]
  /\ m_val   = [n \in ScAllNodes |-> 0]
  /\ status  = [n \in 1..Len(TEST_VALS) |-> "free"]
  /\ alive   = TRUE
  /\ iter    = NoIter
  /\ last    = Call("ctor", 0, NULL, TRUE)
  /\ freed   = <<>>
  /\ copied  = <<>>
  /\ S       = {}
  /\ net_inserts = 0
  /\ sc_step = 0
  /\ ListInit
  /\ StackInit
  /\ assert_failed = FALSE

\* itree.insert( new IntAATreeNode( *i ) ) for the next value of TEST_VALS
ScInsert ==
  /\ sc_step < Len(TEST_VALS)
  /\ ~assert_failed /\ iter.kind = "none"
  /\ \E n \in {sc_step + 1} : \E r \in {insert(Construct(Heap, n, TEST_VALS[n]), n)} :
       /\ SetHeap(r.h)
       /\ status' = [status EXCEPT ![n] = IF r.ret THEN "intree" ELSE "held"]
       /\ last' = Call("insert", TEST_VALS[n], n, r.ret)
       /\ net_inserts' = IF r.ret THEN net_inserts + 1 ELSE net_inserts
       /\ assert_failed' = r.asserted
       /\ S' = S \cup {TEST_VALS[n]}
  /\ sc_step' = sc_step + 1
  /\ freed' = <<>>
  /\ copied' = <<>>
  /\ UNCHANGED <<alive, iter>>
  /\ UNCHANGED <<lvars, svars>>

\* itree.remove( IntAATreeNode( *i ) ) for the next value of TEST_VALS
ScRemove ==
  /\ sc_step >= Len(TEST_VALS) /\ sc_step < 2 * Len(TEST_VALS)
  /\ ~assert_failed /\ iter.kind = "none"
  /\ \E k \in {TEST_VALS[sc_step - Len(TEST_VALS) + 1]} : \E r \in {remove(Heap, k)} :
       /\ SetHeap(r.h)
       /\ status' = AfterFree(r.freed)
       /\ last' = Call("remove", k, NULL, r.ret)
       /\ freed' = r.freed
       /\ copied' = r.copied
       /\ net_inserts' = IF r.ret THEN net_inserts - 1 ELSE net_inserts
       /\ assert_failed' = r.asserted
       /\ S' = S \ {k}
  /\ sc_step' = sc_step + 1
  /\ UNCHANGED <<alive, iter>>
  /\ UNCHANGED <<lvars, svars>>

\* itree.contains( i )
ScContains(i) ==
  /\ ~assert_failed /\ iter.kind = "none"
  /\ last' = Call("contains", i, NULL, contains(Heap, i))
  /\ freed' = <<>> /\ copied' = <<>>
  /\ UNCHANGED <<m_root, m_left, m_right, m_level, m_val, status, alive, iter, S,
                 net_inserts, assert_failed, sc_step>>
  /\ UNCHANGED <<lvars, svars>>

\* itree.is_valid()
ScIsValid ==
  /\ ~assert_failed /\ iter.kind = "none"
  /\ last' = Call("is_valid", 0, NULL, is_valid(Heap))
  /\ freed' = <<>> /\ copied' = <<>>
  /\ UNCHANGED <<m_root, m_left, m_right, m_level, m_val, status, alive, iter, S,
                 net_inserts, assert_failed, sc_step>>
  /\ UNCHANGED <<lvars, svars>>

NextScenario ==
  \/ ScInsert
  \/ ScRemove
  \/ \E i \in 0..(NUM_QUERIES - 1) : ScContains(i)
  \/ ScIsValid
  \/ IterInit
  \/ IterNext
  \/ IterRelease

SpecScenario == ScInit /\ [][NextScenario]_vars

\* ----- the list's state machine ---------------------------------------------------
\* what the abstract sequence becomes
SeqIndex(seq, e) == CHOOSE i \in 1..Len(seq) : seq[i] = e
SeqInsertAt(seq, i, x) == SubSeq(seq, 1, i - 1) \o <<x>> \o SubSeq(seq, i, Len(seq))
SeqRemove(seq, e) ==
  SubSeq(seq, 1, SeqIndex(seq, e) - 1) \o SubSeq(seq, SeqIndex(seq, e) + 1, Len(seq))

\* a node the caller may hand to the list: a new one or one removed earlier
CallerOwns(x) == l_state[x] \in {"out", "removed"}

SetLHeap(lh) ==
  /\ l_prev' = lh.prev
  /\ l_next' = lh.next

\* ilist.append( x )
LAppend(x) ==
  /\ l_alive /\ ~assert_failed /\ CallerOwns(x)
  /\ IF list_append_ok(LHeap)
       THEN /\ SetLHeap(list_append(LHeap, x))
            /\ l_state' = [l_state EXCEPT ![x] = "in"]
            /\ l_seq' = Append(l_seq, x)
            /\ UNCHANGED assert_failed
       ELSE /\ assert_failed' = TRUE
            /\ UNCHANGED <<l_prev, l_next, l_state, l_seq>>
  /\ l_last' = LCall("append", x, NULL)
  /\ l_freed' = <<>>
  /\ UNCHANGED l_alive
  /\ UNCHANGED <<tvars, svars>>

\* ilist.prepend( x )
LPrepend(x) ==
  /\ l_alive /\ ~assert_failed /\ CallerOwns(x)
  /\ IF list_prepend_ok(LHeap)
       THEN /\ SetLHeap(list_prepend(LHeap, x))
            /\ l_state' = [l_state EXCEPT ![x] = "in"]
            /\ l_seq' = <<x>> \o l_seq
            /\ UNCHANGED assert_failed
       ELSE /\ assert_failed' = TRUE
            /\ UNCHANGED <<l_prev, l_next, l_state, l_seq>>
  /\ l_last' = LCall("prepend", x, NULL)
  /\ l_freed' = <<>>
  /\ UNCHANGED l_alive
  /\ UNCHANGED <<tvars, svars>>

\* ilist.insert_before( x, e )
LInsertBefore(x, e) ==
  /\ l_alive /\ ~assert_failed /\ CallerOwns(x) /\ l_state[e] = "in"
  /\ SetLHeap(list_insert_before(LHeap, x, e))
  /\ l_state' = [l_state EXCEPT ![x] = "in"]
  /\ l_seq' = SeqInsertAt(l_seq, SeqIndex(l_seq, e), x)
  /\ l_last' = LCall("insert_before", x, e)
  /\ l_freed' = <<>>
  /\ UNCHANGED <<l_alive, assert_failed>>
  /\ UNCHANGED <<tvars, svars>>

\* ilist.insert_after( x, e )
LInsertAfter(x, e) ==
  /\ l_alive /\ ~assert_failed /\ CallerOwns(x) /\ l_state[e] = "in"
  /\ SetLHeap(list_insert_after(LHeap, x, e))
  /\ l_state' = [l_state EXCEPT ![x] = "in"]
  /\ l_seq' = SeqInsertAt(l_seq, SeqIndex(l_seq, e) + 1, x)
  /\ l_last' = LCall("insert_after", x, e)
  /\ l_freed' = <<>>
  /\ UNCHANGED <<l_alive, assert_failed>>
  /\ UNCHANGED <<tvars, svars>>

\* ilist.remove( e )
LRemove(e) ==
  /\ l_alive /\ ~assert_failed /\ l_state[e] = "in"
  /\ SetLHeap(list_remove(LHeap, e))
  /\ l_state' = [l_state EXCEPT ![e] = "removed"]
  /\ l_seq' = SeqRemove(l_seq, e)
  /\ l_last' = LCall("remove", e, NULL)
  /\ l_freed' = <<>>
  /\ UNCHANGED <<l_alive, assert_failed>>
  /\ UNCHANGED <<tvars, svars>>

\* ~List
LDestroy ==
  /\ l_alive /\ ~assert_failed
  /\ \E r \in {list_destroy(LHeap)} :
       /\ SetLHeap(r.lh)
       /\ l_freed' = r.freed
       /\ l_state' = [n \in LNodes |->
                        IF \E i \in 1..Len(r.freed) : r.freed[i] = n
                          THEN "freed" ELSE l_state[n]]
  /\ l_alive' = FALSE
  /\ l_last' = LCall("dtor", NULL, NULL)
  /\ UNCHANGED <<l_seq, assert_failed>>
  /\ UNCHANGED <<tvars, svars>>

NextList ==
  \/ \E x \in LNodes : LAppend(x)
  \/ \E x \in LNodes : LPrepend(x)
  \/ \E x, e \in LNodes : LInsertBefore(x, e)
  \/ \E x, e \in LNodes : LInsertAfter(x, e)
  \/ \E e \in LNodes : LRemove(e)
  \/ LDestroy

SpecList == Init /\ [][NextList]_vars

\* The round trip of test_remove_many: distinct keys are inserted, then the
\* keys held are removed one by one, in any order.
RTInsert(n, k) ==
  /\ last.op \in {"ctor", "insert"}
  /\ k \notin S
  /\ Insert(n, k)

RTRemove(k) ==
  /\ k \in S
  /\ Remove(k)

NextRoundTrip ==
  \/ \E n \in Nodes, k \in Keys : RTInsert(n, k)
  \/ \E k \in Keys : RTRemove(k)

SpecRoundTrip == Init /\ [][NextRoundTrip]_vars

\* ----- vocabulary of the properties -------------------------------------------
RECURSIVE Subtree(_, _, _)
\* the nodes of the subtree rooted at n, down to depth d
Subtree(h, n, d) ==
  IF n = NIL \/ n = NULL \/ d = 0 THEN {}
  ELSE {n} \cup Subtree(h, h.left[n], d - 1) \cup Subtree(h, h.right[n], d - 1)

NodesBelow(h, n) == Subtree(h, n, NumNodes)
TreeNodes == NodesBelow(Heap, m_root)
TreeKeys  == {m_val[n] : n \in TreeNodes}
Range(seq) == {seq[i] : i \in 1..Len(seq)}

RECURSIVE Leftmost(_, _)
Leftmost(h, n) == IF h.left[n] = NIL THEN n ELSE Leftmost(h, h.left[n])

LeafLevelOne(n) ==
  (m_left[n] = NIL /\ m_right[n] = NIL) => m_level[n] = 1
LeftOneBelow(n) ==
  m_left[n] # NIL => m_level[m_left[n]] = m_level[n] - 1
RightSameOrOneBelow(n) ==
  m_right[n] # NIL => m_level[m_right[n]] \in {m_level[n], m_level[n] - 1}
NoDoubleRight(n) ==
  ~(/\ m_right[n] # NIL
    /\ m_level[m_right[n]] = m_level[n]
    /\ m_right[m_right[n]] # NIL
    /\ m_level[m_right[m_right[n]]] = m_level[n])

LevelInvariants ==
  \A n \in TreeNodes :
    LeafLevelOne(n) /\ LeftOneBelow(n) /\ RightSameOrOneBelow(n) /\ NoDoubleRight(n)

\* ----- C1 ---------------------------------------------------------------------
\* C1: after every insert or remove, every node reachable from root satisfies
\* the four AA level invariants (leaf at level 1, left child one below, right
\* child equal or one below, no two consecutive right links at one level).
C1_LevelInvariants == alive => LevelInvariants

\* ----- C2 ---------------------------------------------------------------------
\* C2: after every insert or remove the tree is binary-search ordered: every
\* key in a node's left subtree is less than the node's key, every key in its
\* right subtree is greater, and no two nodes of the tree compare equal.
C2_SearchOrdered ==
  alive =>
    /\ \A n \in TreeNodes :
         /\ \A l \in NodesBelow(Heap, m_left[n])  : less_than_fn(m_val[l], m_val[n])
         /\ \A r \in NodesBelow(Heap, m_right[n]) : less_than_fn(m_val[n], m_val[r])
    /\ \A a, b \in TreeNodes :
         a # b => (less_than_fn(m_val[a], m_val[b]) \/ less_than_fn(m_val[b], m_val[a]))

\* a removal has just rebalanced a tree that keeps both a left and a right link
C2_Witness ==
  /\ last.op = "remove" /\ last.ret
  /\ \E n \in TreeNodes : m_left[n] # NIL /\ m_right[n] # NIL

\* ----- C3 ---------------------------------------------------------------------
\* C3: the keys held by the nodes reachable from root are exactly the abstract
\* set S; find(k) returns a node of the tree holding k when k is in S and
\* nullptr otherwise, so contains(k) = (k \in S); right after a successful
\* remove(k), k is not contained and every other key of S still is.
C3_Membership ==
  alive =>
    /\ TreeKeys = S
    /\ \A k \in Keys :
         /\ k \in S => (find(Heap, k) \in TreeNodes /\ m_val[find(Heap, k)] = k)
         /\ k \notin S => find(Heap, k) = NULL
         /\ contains(Heap, k) = (k \in S)
    /\ (last.op = "remove" /\ last.ret) =>
         /\ ~contains(Heap, last.key)
         /\ \A k \in S : contains(Heap, k)

\* a successful remove has left at least two other keys behind
C3_Witness ==
  /\ last.op = "remove" /\ last.ret
  /\ Cardinality(S) >= 2
  /\ ~contains(Heap, last.key)

\* ----- C4 ---------------------------------------------------------------------
\* C4: insert(node) returns true exactly when no node comparing equal to it is
\* in the tree before the call; remove(key) returns true exactly when a node
\* comparing equal to key is in the tree before the call.
C4_ReturnValues ==
  [][ /\ last'.op = "insert" => (last'.ret = (last'.key \notin TreeKeys))
      /\ last'.op = "remove" => (last'.ret = (last'.key \in TreeKeys)) ]_vars

\* a remove of a missing key has returned false on a tree that is not empty
C4_Witness ==
  /\ last.op = "remove" /\ ~last.ret
  /\ TreeNodes # {}

\* ----- C5 ---------------------------------------------------------------------
\* C5: an insert that returns false leaves root and the left, right, level and
\* key of every node of the tree as they were, leaves the rejected node's left,
\* right and level in their initial state, and calls neither free_node nor
\* copy_contents.
C5_RejectedInsert ==
  [][ (last'.op = "insert" /\ ~last'.ret) =>
        /\ m_root' = m_root
        /\ \A n \in TreeNodes :
             /\ m_left'[n] = m_left[n]
             /\ m_right'[n] = m_right[n]
             /\ m_level'[n] = m_level[n]
             /\ m_val'[n] = m_val[n]
        /\ m_left'[last'.node] = NULL
        /\ m_right'[last'.node] = NULL
        /\ m_level'[last'.node] = 1
        /\ freed' = <<>>
        /\ copied' = <<>> ]_vars

\* a duplicate has been rejected by a tree of at least two nodes
C5_Witness ==
  /\ last.op = "insert" /\ ~last.ret
  /\ status[last.node] = "held"
  /\ Cardinality(TreeNodes) >= 2

\* ----- C6 ---------------------------------------------------------------------
\* C6: after inserting N distinct keys in any order and removing them all in
\* any order, every remove has returned true, is_empty() is true (root is the
\* nil sentinel) and the tree is valid.
C6_RoundTrip ==
  /\ last.op = "remove" => last.ret
  /\ (last.op = "remove" /\ S = {}) =>
       (is_empty(Heap) /\ m_root = NIL /\ LevelInvariants)

\* the last removal of a round trip has emptied the tree; the node it freed
\* is the third or a later one allocated, so at least three keys went in
C6_Witness ==
  /\ last.op = "remove" /\ last.ret /\ S = {}
  /\ Len(freed) = 1 /\ freed[1] >= 3
  /\ is_empty(Heap)

\* ----- C7 ---------------------------------------------------------------------
\* C7: an in-order iterator pulled until has_next() is false returns every node
\* of the tree exactly once, in strictly ascending key order, in as many next()
\* calls as the tree has nodes; on an empty tree has_next() is false at once.
C7_InOrder ==
  (alive /\ iter.kind = "inorder") =>
    /\ \A i \in 1..Len(iter.out) : iter.out[i] \in TreeNodes
    /\ \A i, j \in 1..Len(iter.out) :
         i < j => less_than_fn(m_val[iter.out[i]], m_val[iter.out[j]])
    /\ ~iter_has_next(iter.stack) =>
         /\ Range(iter.out) = TreeNodes
         /\ Len(iter.out) = Cardinality(TreeNodes)
    /\ TreeNodes = {} => ~iter_has_next(iter.stack)

\* an in-order walk of at least three nodes has come to its end
C7_Witness ==
  /\ iter.kind = "inorder"
  /\ ~iter_has_next(iter.stack)
  /\ Len(iter.out) >= 3

\* ----- C8 ---------------------------------------------------------------------
\* C8: a postfix iterator pulled until has_next() is false returns every node
\* of the tree exactly once, each node after its left and its right child,
\* in as many next() calls as the tree has nodes.
C8_Postfix ==
  (alive /\ iter.kind = "postfix") =>
    /\ \A i \in 1..Len(iter.out) :
         /\ iter.out[i] \in TreeNodes
         /\ \A j \in 1..Len(iter.out) : i # j => iter.out[i] # iter.out[j]
         /\ m_left[iter.out[i]] # NIL =>
              \E j \in 1..(i - 1) : iter.out[j] = m_left[iter.out[i]]
         /\ m_right[iter.out[i]] # NIL =>
              \E j \in 1..(i - 1) : iter.out[j] = m_right[iter.out[i]]
    /\ ~postfix_has_next(iter.stack) =>
         /\ Range(iter.out) = TreeNodes
         /\ Len(iter.out) = Cardinality(TreeNodes)

\* a postfix walk has ended on a tree whose root has two children
C8_Witness ==
  /\ iter.kind = "postfix"
  /\ ~postfix_has_next(iter.stack)
  /\ m_root # NIL /\ m_left[m_root] # NIL /\ m_right[m_root] # NIL
  /\ Len(iter.out) >= 3

\* ----- C9 ---------------------------------------------------------------------
\* C9: when remove(k) finds a node t with two non-nil children, free_node gets
\* the in-order successor of t (the leftmost node of t's right subtree, whose
\* left child is nil) and never t; t stays in the tree and holds the
\* successor's key afterwards, so find(successor key) is t and no node of the
\* tree holds k.
C9_VictimRemoval ==
  [][ LET t == find(Heap, last'.key) IN
      (/\ last'.op = "remove"
       /\ t # NULL
       /\ m_left[t] # NIL /\ m_right[t] # NIL) =>
        LET succ == Leftmost(Heap, m_right[t]) IN
          /\ freed' = <<succ>>
          /\ succ # t
          /\ m_left[succ] = NIL
          /\ t \in TreeNodes'
          /\ m_val'[t] = m_val[succ]
          /\ find(Heap', m_val[succ]) = t
          /\ \A n \in TreeNodes' : m_val'[n] # last'.key ]_vars

\* a remove has copied a victim into a node that is still in the tree
C9_Witness ==
  /\ last.op = "remove" /\ last.ret
  /\ Len(copied) = 1
  /\ copied[1][2] \in TreeNodes
  /\ freed = <<copied[1][1]>>

\* ----- C10 --------------------------------------------------------------------
\* C10: destroying the tree passes every node reachable from root to free_node
\* exactly once, each node after its left child and its right child.
C10_DestroyOrder ==
  [][ last'.op = "dtor" =>
        /\ last'.ret
        /\ Range(freed') = TreeNodes
        /\ Len(freed') = Cardinality(TreeNodes)
        /\ \A i \in 1..Len(freed') :
             /\ m_left[freed'[i]] # NIL =>
                  \E j \in 1..(i - 1) : freed'[j] = m_left[freed'[i]]
             /\ m_right[freed'[i]] # NIL =>
                  \E j \in 1..(i - 1) : freed'[j] = m_right[freed'[i]] ]_vars

\* a tree of at least three nodes has been destroyed
C10_Witness ==
  /\ ~alive /\ last.op = "dtor"
  /\ Len(freed) >= 3

\* ----- C11 --------------------------------------------------------------------
\* the nodes the tree owns: their insert returned true and no free_node call
\* has been made on them since
Owned == {n \in DOMAIN status : status[n] = "intree"}

\* C11: every node passed to free_node is owned by the tree at that moment (its
\* insert returned true and it has not been freed before), and no call frees a
\* node twice; a successful remove frees exactly one node, which is no longer
\* reachable from root; an insert (accepted or rejected) and a failed remove free
\* nothing; the destructor frees every owned node, so none is left unfreed, and
\* leaves a rejected node alone.
C11_Ownership ==
  [][ /\ \A i \in 1..Len(freed') :
           /\ freed'[i] \in Owned
           /\ \A j \in 1..Len(freed') : i # j => freed'[i] # freed'[j]
      /\ (last'.op = "remove" /\ last'.ret) =>
           (Len(freed') = 1 /\ freed'[1] \notin TreeNodes')
      /\ (last'.op = "remove" /\ ~last'.ret) => freed' = <<>>
      /\ last'.op = "insert" => freed' = <<>>
      /\ last'.op = "dtor" =>
           /\ Range(freed') = Owned
           /\ \A n \in DOMAIN status : status'[n] # "intree"
           /\ \A n \in HeldNodes : status'[n] = "held" ]_vars

\* the destructor has freed at least two nodes while a rejected node was in
\* the caller's hands
C11_Witness ==
  /\ ~alive /\ last.op = "dtor"
  /\ Len(freed) >= 2
  /\ HeldNodes # {}

\* ----- C12 --------------------------------------------------------------------
\* C12: when every call respects its precondition (insert of a node in its
\* initial state, remove of any key, next() only after has_next() returned
\* true, no change of the tree while an iterator is in use) no assertion of
\* insert, remove, adjust_level, the path stack or an iterator fails: the
\* assertion-failure hook is never called, every iterator call and the
\* destructor complete, and a duplicate key or a missing key shows only as the
\* returned value false.
C12_NoAssertion ==
  /\ ~assert_failed
  /\ last.op \in {"iterator", "postfix_iterator", "next", "dtor"} => last.ret
  /\ last.op \in {"insert", "remove"} => last.ret \in BOOLEAN

\* a remove of a missing key has returned false, without a failed assertion,
\* on a tree of at least three nodes
C12_Witness ==
  /\ last.op = "remove" /\ ~last.ret
  /\ ~assert_failed
  /\ Cardinality(TreeNodes) >= 3

\* ----- C13 --------------------------------------------------------------------
\* C13: insert(node) of a node that is linked in the tree (so its child links
\* are set) calls the assertion-failure hook, which does not return, before
\* root or any field of any node is modified.
C13_InsertLinkedAsserts ==
  [][ last'.op = "insert_linked" =>
        /\ assert_failed'
        /\ Heap' = Heap
        /\ status' = status
        /\ net_inserts' = net_inserts ]_vars

\* the hook has been called for an insert of a node of a tree of three or more
C13_Witness ==
  /\ last.op = "insert_linked"
  /\ assert_failed
  /\ Cardinality(TreeNodes) >= 3
  /\ m_level[last.node] >= 2

\* ----- C14 --------------------------------------------------------------------
\* C14: is_empty() is true exactly when the tree owns no node, that is when as
\* many removes as inserts have returned true.
C14_IsEmpty ==
  alive =>
    /\ is_empty(Heap) <=> (Owned = {})
    /\ is_empty(Heap) <=> (net_inserts = 0)
    /\ net_inserts = Cardinality(Owned)

\* the last of two or more nodes has been removed: is_empty() is true again
C14_Witness ==
  /\ alive /\ last.op = "remove" /\ last.ret
  /\ is_empty(Heap) /\ net_inserts = 0
  /\ Len(freed) = 1 /\ freed[1] >= 2

\* ----- C15 --------------------------------------------------------------------
\* the keys of the nodes an in-order walk has returned, in order
IterKeys == [i \in 1..Len(iter.out) |-> m_val[iter.out[i]]]

\* C15: after inserting 16,53,3,98,79,80,17,11,42,86 in that order,
\* contains(42) is true, contains(50) is false and a complete in-order walk
\* yields 3,11,16,17,42,53,79,80,86,98; then, removing the ten keys in the
\* order they went in, every remove returns true, the removed key is not
\* contained any more, is_valid() is true after every removal, and is_empty()
\* is true after the last one.
C15_Scenario ==
  /\ sc_step = Len(TEST_VALS) =>
       /\ contains(Heap, 42)
       /\ ~contains(Heap, 50)
       /\ (iter.kind = "inorder" /\ ~iter_has_next(iter.stack)) =>
            IterKeys = <<3, 11, 16, 17, 42, 53, 79, 80, 86, 98>>
  /\ sc_step > Len(TEST_VALS) =>
       /\ last.op = "remove" => (last.ret /\ ~contains(Heap, last.key))
       /\ last.op = "is_valid" => last.ret
       /\ is_valid(Heap)
  /\ sc_step = 2 * Len(TEST_VALS) => is_empty(Heap)

\* the tenth remove has returned true and left the tree empty
C15_Witness ==
  /\ sc_step = 2 * Len(TEST_VALS)
  /\ last.op = "remove" /\ last.ret
  /\ is_empty(Heap)
  /\ S = {}

\* ----- C16 --------------------------------------------------------------------
\* C16: copy_contents is called only by a remove whose found node t has two
\* non-nil children, once, with arguments (victim, t); every other call (an
\* insert, an iterator call, the destructor, a remove of a leaf, of a node with
\* one child or of a missing key) makes no copy_contents call and leaves the key
\* of every node of the tree that is not freed as it was; in the two-children case only
\* t's key changes.
C16_CopyOnlyTwoChildren ==
  [][ LET t   == find(Heap, last'.key)
          two == /\ last'.op = "remove"
                 /\ t # NULL
                 /\ m_left[t] # NIL /\ m_right[t] # NIL
      IN /\ two => /\ copied' = << <<Leftmost(Heap, m_right[t]), t>> >>
                   /\ \A n \in TreeNodes' \ {t} : m_val'[n] = m_val[n]
         /\ ~two => /\ copied' = <<>>
                    /\ \A n \in TreeNodes :
                         status'[n] = "intree" => m_val'[n] = m_val[n] ]_vars

\* a remove of the root, which had two children, has made its one copy call
C16_Witness ==
  /\ last.op = "remove" /\ last.ret
  /\ Len(copied) = 1
  /\ copied[1][2] = m_root
  /\ Cardinality(TreeNodes) >= 3

\* ----- vocabulary of the list properties ----------------------------------------
RECURSIVE WalkForward(_, _, _)
\* the nodes met from p by next() until nullptr, at most fuel of them
WalkForward(lh, p, fuel) ==
  IF p = NULL \/ fuel = 0 THEN <<>>
  ELSE <<p>> \o WalkForward(lh, list_next(lh, p), fuel - 1)

RECURSIVE WalkBackward(_, _, _)
\* the nodes met from p by prev() until nullptr, at most fuel of them
WalkBackward(lh, p, fuel) ==
  IF p = NULL \/ fuel = 0 THEN <<>>
  ELSE <<p>> \o WalkBackward(lh, list_prev(lh, p), fuel - 1)

\* get_first() / next() until nullptr, and get_last() / prev() until nullptr
Forward  == WalkForward(LHeap, list_get_first(LHeap), NumNodes + 1)
Backward == WalkBackward(LHeap, list_get_last(LHeap), NumNodes + 1)
Reverse(seq) == [i \in 1..Len(seq) |-> seq[Len(seq) + 1 - i]]

\* ----- C17 --------------------------------------------------------------------
\* C17: after any series of append, prepend, insert_before(x, e),
\* insert_after(x, e) and remove(e) calls on a list that starts empty, the walk
\* get_first()/next() until nullptr yields exactly the abstract sequence (add
\* at the end, add at the front, insert just before e, insert just after e,
\* delete e), and get_size() is the length of that sequence.
C17_ListIsSequence ==
  l_alive =>
    /\ Forward = l_seq
    /\ list_get_size(LHeap) = Len(l_seq)

\* an insert_before in the middle of the list has made a list of three or more
C17_Witness ==
  /\ l_last.op = "insert_before"
  /\ Len(l_seq) >= 3
  /\ l_seq[1] # l_last.node
  /\ Forward = l_seq

\* ----- C18 --------------------------------------------------------------------
\* C18: after every list operation n.next.prev = n for every node n of the
\* chain from the head sentinel up to the tail sentinel, so the walk
\* get_last()/prev() until nullptr yields the reverse of the walk
\* get_first()/next(); on an empty list get_first() and get_last() return
\* nullptr and get_size() is 0.
C18_LinksConsistent ==
  l_alive =>
    /\ \A n \in {LHEAD} \cup Range(Forward) :
         /\ l_next[n] # NULL
         /\ l_prev[l_next[n]] = n
    /\ Backward = Reverse(Forward)
    /\ l_seq = <<>> =>
         /\ list_get_first(LHeap) = NULL
         /\ list_get_last(LHeap) = NULL
         /\ list_get_size(LHeap) = 0

\* an insert_after in front of another node has made a list of three or more
C18_Witness ==
  /\ l_last.op = "insert_after"
  /\ Len(l_seq) >= 3
  /\ l_seq[Len(l_seq)] # l_last.node
  /\ Backward = Reverse(l_seq)

\* ----- C19 --------------------------------------------------------------------
\* C19: remove(n) unlinks n, sets n's prev and next to nullptr and makes no
\* call of the free function; the destructor calls the free function once on
\* every node still in the list, front to back, and on no node removed earlier;
\* no other operation calls the free function.
C19_ListOwnership ==
  [][ /\ l_last'.op = "remove" =>
           /\ l_prev'[l_last'.node] = NULL
           /\ l_next'[l_last'.node] = NULL
           /\ \A i \in 1..Len(Forward') : Forward'[i] # l_last'.node
           /\ Forward' = SeqRemove(Forward, l_last'.node)
           /\ l_freed' = <<>>
           /\ l_state'[l_last'.node] = "removed"
      /\ l_last'.op = "dtor" =>
           /\ l_freed' = Forward
           /\ \A i \in 1..Len(l_freed') : l_state[l_freed'[i]] = "in"
           /\ \A n \in LNodes : l_state[n] = "removed" => l_state'[n] = "removed"
           /\ \A n \in LNodes : l_state'[n] # "in"
      /\ l_last'.op # "dtor" => l_freed' = <<>> ]_vars

\* the destructor has freed two or more nodes and left a removed node alone
C19_Witness ==
  /\ ~l_alive /\ l_last.op = "dtor"
  /\ Len(l_freed) >= 2
  /\ \E n \in LNodes : l_state[n] = "removed"

\* ----- C20 --------------------------------------------------------------------
\* C20: in every state reachable by insert and remove, is_valid() returns true
\* exactly when the four AA level invariants hold for every node reachable from
\* root: false whenever some node violates one of them, true otherwise, the
\* empty tree included.
C20_IsValidExact ==
  alive => (is_valid(Heap) <=> LevelInvariants)

\* ----- larger arenas -----------------------------------------------------------
\* The tree alone, under a caller that inserts keys the tree does not hold and
\* removes keys it holds (the calls of test_insert_many and test_remove_many):
\* SpecDeep with one more node and one more key than Spec has, SpecTall with
\* two more of each, where the keys of Spec come and go and the two larger keys
\* stay once they are in.
DeepNodes == 1..(NumNodes + 1)
DeepKeys  == 1..(MaxKey + 1)
TallNodes == 1..(NumNodes + 2)
TallKeys  == 1..(MaxKey + 2)

\* AATreeImpl::AATreeImpl on an arena of the given nodes, not allocated yet
ArenaInit(nodes) ==
  /\ m_root  = NIL
  /\ m_left  = [n \in {NIL} \cup nodes |-> NULL]
  /\ m_right = [n \in {NIL} \cup nodes |-> NULL]
  /\ m_level = [n \in {NIL} \cup nodes |-> IF n = NIL THEN 0 ELSE 1]
  /\ m_val   = [n \in {NIL} \cup nodes |-> 0]
  /\ status  = [n \in nodes |-> "free"]
  /\ alive   = TRUE
  /\ iter    = NoIter
  /\ last    = Call("ctor", 0, NULL, TRUE)
  /\ freed   = <<>>
  /\ copied  = <<>>
  /\ S       = {}
  /\ net_inserts = 0
  /\ sc_step = 0
  /\ ListInit
  /\ StackInit
  /\ assert_failed = FALSE

DeepInit == ArenaInit(DeepNodes)
TallInit == ArenaInit(TallNodes)

\* itree.insert( new IntAATreeNode( k ) ) of a key the tree does not hold
DeepInsert(n, k) ==
  /\ k \notin S
  /\ Insert(n, k)

\* itree.remove( IntAATreeNode( k ) ) of a key the tree holds
DeepRemove(k) ==
  /\ k \in S
  /\ Remove(k)

NextDeep ==
  \/ \E n \in DeepNodes, k \in DeepKeys : DeepInsert(n, k)
  \/ \E k \in DeepKeys : DeepRemove(k)

SpecDeep == DeepInit /\ [][NextDeep]_vars

NextTall ==
  \/ \E n \in TallNodes, k \in TallKeys : DeepInsert(n, k)
  \/ \E k \in Keys : DeepRemove(k)

SpecTall == TallInit /\ [][NextTall]_vars

\* ----- C21 --------------------------------------------------------------------
RECURSIVE SlotsTo(_, _, _, _)
\* the link slots met on the way from link down to the slot that holds node n,
\* that slot included, following the keys; at most fuel of them
SlotsTo(h, n, link, fuel) ==
  LET cur == Deref(h, link) IN
  IF cur = n \/ cur = NIL \/ cur = NULL \/ fuel = 0 THEN <<link>>
  ELSE <<link>> \o SlotsTo(h, n,
                           IF less_than_fn(h.val[n], h.val[cur])
                             THEN get_ptr_to_left(cur) ELSE get_ptr_to_right(cur),
                           fuel - 1)

\* C21: during a remove that unlinks a node, the path stack holds, when the
\* fix-up loop starts, every link slot on the path from the root to the unlinked
\* node exactly once, the root slot at the bottom and the deepest slot on top, so
\* that the fix-up loop (which pops until the stack is empty and runs
\* adjust_level, skew and split at each popped slot) handles each slot once,
\* deepest first and the root slot last.
C21_PathOnce ==
  [][ (last'.op = "remove" /\ last'.ret) =>
        LET path == remove(Heap, last'.key).path
        IN /\ \A i, j \in 1..Len(path) : i # j => path[i] # path[j]
           /\ path = SlotsTo(Heap, freed'[1], RootSlot, NumNodes) ]_vars

\* ----- vocabulary of the rebalancing passes -------------------------------------
RECURSIVE FixSteps(_, _, _)
\* the passes of a rebalancing loop over path from heap h, top of the stack
\* first: the slot, the heap before the pass, after adjust_level (remove only:
\* adj), after skew and after split
FixSteps(h, path, adj) ==
  IF is_empty_stack(path) THEN <<>>
  ELSE LET link == top(path)
           h1   == IF adj THEN adjust_level(h, Deref(h, link)) ELSE h
           h2   == SkewAt(h1, link)
           h3   == SplitAt(h2, link)
       IN <<[link |-> link, before |-> h, adjusted |-> h1, skewed |-> h2, split |-> h3]>>
          \o FixSteps(h3, pop(path), adj)

\* the passes of the fix-up loop of the remove call being made
RemoveSteps == LET r == remove(Heap, last'.key) IN FixSteps(r.h0, r.path, TRUE)

\* ----- C22 --------------------------------------------------------------------
\* adjust_level(t) took heap h to heap h1 as C22 says
AdjustLevelAsClaimed(h, h1, t) ==
  LET right   == get_right(h, t)
      t_level == get_level(h, t)
      missing == \/ get_level(h, get_left(h, t)) < t_level - 1
                 \/ get_level(h, right) < t_level - 1
  IN /\ h1.root = h.root /\ h1.left = h.left /\ h1.right = h.right
     /\ missing =>
          h1.level = [h.level EXCEPT ![t] = t_level - 1,
                                     ![right] = IF @ = t_level THEN t_level - 1 ELSE @]
     /\ ~missing => h1.level = h.level

\* C22: at every adjust_level(t) call of a remove with t not the nil sentinel:
\* if a child of t is more than one level below t, t's level goes down by one,
\* and so does the level of t's right child if it was at t's level; otherwise
\* no level changes; no child link changes in either case.
C22_AdjustLevel ==
  [][ (last'.op = "remove" /\ last'.ret) =>
        \A steps \in {RemoveSteps} : \A i \in 1..Len(steps) :
          \A t \in {Deref(steps[i].before, steps[i].link)} :
            t # NIL => AdjustLevelAsClaimed(steps[i].before, steps[i].adjusted, t) ]_vars

\* the passes of the rebalancing loop of the insert call being made
InsertSteps ==
  LET r == insert(Construct(Heap, last'.node, last'.key), last'.node)
  IN FixSteps(r.h0, r.path, FALSE)

\* the passes of the insert or remove call being made
RebalanceSteps ==
  IF last'.op = "insert" /\ last'.ret THEN InsertSteps
  ELSE IF last'.op = "remove" /\ last'.ret THEN RemoveSteps
  ELSE <<>>

RECURSIVE InOrder(_, _, _)
\* the nodes of the subtree rooted at n from left to right, down to depth d
InOrder(h, n, d) ==
  IF n = NIL \/ n = NULL \/ d = 0 THEN <<>>
  ELSE InOrder(h, h.left[n], d - 1) \o <<n>> \o InOrder(h, h.right[n], d - 1)

\* ----- C23 --------------------------------------------------------------------
\* skew(t) on heap h did what C23 says
SkewAsClaimed(h, t) ==
  LET left == get_left(h, t)
      r    == skew(h, t)
  IN /\ IF left # NIL /\ get_level(h, left) = get_level(h, t)
          THEN /\ r.t = left
               /\ r.h = [h EXCEPT !.right[left] = t, !.left[t] = h.right[left]]
          ELSE /\ r.t = t
               /\ r.h = h
     /\ r.h.level = h.level
     /\ InOrder(r.h, r.t, NumNodes + 2) = InOrder(h, t, NumNodes + 2)
     /\ ~(/\ get_left(r.h, r.t) # NIL
          /\ get_level(r.h, get_left(r.h, r.t)) = get_level(r.h, r.t))

\* C23: at every skew(t) call of an insert or a remove with t not the nil
\* sentinel: if t's left child is not nil and is at t's level, skew returns that
\* child, with t as its right child and its former right subtree as t's left
\* subtree, and changes no level; otherwise it returns t and changes nothing.
\* Either way the nodes of the subtree keep their left-to-right order, and the
\* returned root has no left child at its own level.
C23_Skew ==
  [][ \A steps \in {RebalanceSteps} : \A i \in 1..Len(steps) :
        \A t \in {Deref(steps[i].adjusted, steps[i].link)} :
          t # NIL => SkewAsClaimed(steps[i].adjusted, t) ]_vars

\* ----- C24 --------------------------------------------------------------------
\* split(t) on heap h did what C24 says
SplitAsClaimed(h, t) ==
  LET right == get_right(h, t)
      r     == split(h, t)
      rot   == /\ right # NIL
               /\ get_right(h, right) # NIL
               /\ get_level(h, get_right(h, right)) = get_level(h, t)
  IN /\ IF rot
          THEN /\ r.t = right
               /\ r.h = [h EXCEPT !.left[right] = t, !.right[t] = h.left[right],
                                  !.level[right] = h.level[right] + 1]
               /\ get_level(h, right) = get_level(h, t)
          ELSE /\ r.t = t
               /\ r.h = h
     /\ InOrder(r.h, r.t, NumNodes + 2) = InOrder(h, t, NumNodes + 2)

\* C24: at every split(t) call of an insert or a remove with t not the nil
\* sentinel: if t's right child and that child's right child are not nil and the
\* latter is at t's level, split returns the right child, with t as its left
\* child, its former left subtree as t's right subtree and its level raised by
\* one, and the right child was at t's level; otherwise it returns t and changes
\* nothing.  Either way the nodes of the subtree keep their left-to-right order.
C24_Split ==
  [][ \A steps \in {RebalanceSteps} : \A i \in 1..Len(steps) :
        \A t \in {Deref(steps[i].skewed, steps[i].link)} :
          t # NIL => SplitAsClaimed(steps[i].skewed, t) ]_vars

\* ----- C25 --------------------------------------------------------------------
\* the nodes whose fields adjust_level( t ) reads or writes: t and, through
\* left->get_level() and right->get_level(), its two children
adjust_level_reads(h, t) ==
  IF t = NIL THEN {} ELSE {t, get_left(h, t), get_right(h, t)} \ {NIL}

\* the nodes whose fields skew( t ) reads or writes: t and its left child
skew_reads(h, t) ==
  IF t = NIL THEN {} ELSE {t, get_left(h, t)} \ {NIL}

\* the nodes whose fields split( t ) reads or writes: t, right and x
split_reads(h, t) ==
  IF t = NIL THEN {}
  ELSE IF get_right(h, t) = NIL THEN {t}
  ELSE {t, get_right(h, t), get_right(h, get_right(h, t))} \ {NIL}

\* the nodes whose fields a next() of the postfix iterator reads, from the stack
\* before and after the call: cur, the parent under it, and the nodes pushed on
\* the way down the parent's right subtree
postfix_next_reads(stk, after) ==
  {NodeAt(clean_ptr(top(stk)))} \cup
  (IF Len(stk) >= 2
     THEN {NodeAt(clean_ptr(after[i])) : i \in (Len(stk) - 1)..Len(after)}
     ELSE {})

RECURSIVE PostfixWalk(_, _, _)
\* the next() calls of a postfix walk over heap h that nothing modifies: the
\* stack before each call, the node returned and the stack after, for at most
\* fuel calls
PostfixWalk(h, stk, fuel) ==
  IF ~postfix_has_next(stk) \/ fuel = 0 THEN <<>>
  ELSE LET r == postfix_next(h, stk) IN
    IF r.asserted THEN <<>>
    ELSE <<[stack |-> stk, node |-> r.node, after |-> r.stack]>>
         \o PostfixWalk(h, r.stack, fuel - 1)

\* C25: no operation reads or writes a field of a node that has been passed to
\* free_node.  In a remove, once the node is freed, every link slot on the path
\* stack is the root slot or a field of a node that is not freed, and the passes
\* of the fix-up loop touch no freed node.  In the destructor, freeing the nodes
\* does not change the postfix walk, and each next() touches (current node, its
\* parent, the nodes it pushes in the parent's right subtree) only nodes that
\* are not freed yet.  Between calls no freed node is reachable from root.
C25_NoUseAfterFree ==
  [][ /\ (last'.op = "remove" /\ last'.ret) =>
           \A steps \in {RemoveSteps} : \A i \in 1..Len(steps) :
             /\ steps[i].link[1] # "root" => steps[i].link[2] \notin Range(freed')
             /\ Range(freed') \cap
                  (adjust_level_reads(steps[i].before,
                                      Deref(steps[i].before, steps[i].link)) \cup
                   skew_reads(steps[i].adjusted,
                              Deref(steps[i].adjusted, steps[i].link)) \cup
                   split_reads(steps[i].skewed,
                               Deref(steps[i].skewed, steps[i].link))) = {}
      /\ last'.op = "dtor" =>
           \A walk \in {PostfixWalk(Heap, postfix_init(Heap).stack, NumNodes + 2)} :
             /\ Len(freed') = Len(walk)
             /\ \A i \in 1..Len(walk) :
                  /\ freed'[i] = walk[i].node
                  /\ \A j \in 1..(i - 1) :
                       freed'[j] \notin postfix_next_reads(walk[i].stack, walk[i].after)
      /\ alive' => \A n \in TreeNodes' : status'[n] = "intree" ]_vars

\* the destructor has freed a tree that held every node of the arena
C25_Witness ==
  /\ ~alive /\ last.op = "dtor"
  /\ Len(freed) = NumNodes

\* ----- C26 --------------------------------------------------------------------
RECURSIVE HeightFrom(_, _, _)
\* the number of nodes on the longest path from n down to a node, for paths of
\* at most fuel nodes
HeightFrom(h, n, fuel) ==
  IF n = NIL \/ n = NULL \/ fuel = 0 THEN 0
  ELSE LET l == HeightFrom(h, h.left[n], fuel - 1)
           r == HeightFrom(h, h.right[n], fuel - 1)
       IN 1 + (IF l > r THEN l ELSE r)

\* the height of the tree, and the number of its nodes
Height == HeightFrom(Heap, m_root, NumNodes + 2)
TreeSize == Cardinality(Subtree(Heap, m_root, NumNodes + 2))

RECURSIVE FloorLog2(_)
FloorLog2(x) == IF x <= 1 THEN 0 ELSE 1 + FloorLog2(x \div 2)

\* C26: every tree reachable by insert and remove that holds n >= 1 nodes has
\* height (nodes on the longest path from root) at most 2 * floor(log2(n + 1)).
C26_HeightBound ==
  (alive /\ TreeSize >= 1) => Height <= 2 * FloorLog2(TreeSize + 1)

\* ----- C27 --------------------------------------------------------------------
\* C27: on a tree reachable by insert and remove, the path stack of an insert or
\* a remove (which only grows until the rebalancing loop starts) and the stack
\* of an in-order or postfix iterator, before and after each of its calls,
\* never hold more entries than the tree has nodes on its longest path from
\* root when the operation starts.
C27_StackWithinHeight ==
  [][ /\ last'.op = "insert" =>
           Len(insert(Construct(Heap, last'.node, last'.key), last'.node).path) <= Height
      /\ last'.op = "remove" => Len(remove(Heap, last'.key).path) <= Height
      /\ last'.op \in {"iterator", "postfix_iterator", "next"} =>
           /\ Len(iter.stack) <= Height
           /\ Len(iter'.stack) <= Height ]_vars

\* a postfix iterator holds as many entries as the tree is high, three or more
C27_Witness ==
  /\ iter.kind = "postfix"
  /\ Height >= 3
  /\ Len(iter.stack) = Height

\* ----- the path stack on its own ---------------------------------------------
\* The stack is public in ds_aatree.h; here it is called directly, on a stack
\* that holds any number of entries up to its capacity.
StackFill(n) == [i \in 1..n |-> (i % NumNodes) + 1]

StackFilledInit ==
  /\ TreeInit
  /\ ListInit
  /\ assert_failed = FALSE
  /\ \E n \in 0..AA_TREE_MAX_HEIGHT : StackOf(StackFill(n))

\* the most recent push that has not been popped
Newest(live) == CHOOSE e \in live : \A f \in live : f.t <= e.t

\* AATreePtrStackImpl::push
StackPush(p) ==
  /\ ~assert_failed
  /\ p_calls < MaxCalls
  /\ IF push_ok(m_stack)
       THEN /\ m_stack' = push(m_stack, p)
            /\ p_live'  = p_live \cup {[t |-> p_clock + 1, p |-> p]}
            /\ p_clock' = p_clock + 1
            /\ UNCHANGED assert_failed
       ELSE /\ assert_failed' = TRUE
            /\ UNCHANGED <<m_stack, p_live, p_clock>>
  /\ p_last'  = PCall("push", p, NULL)
  /\ p_calls' = p_calls + 1
  /\ UNCHANGED <<tvars, lvars>>

\* AATreePtrStackImpl::top
StackTop ==
  /\ ~assert_failed
  /\ p_calls < MaxCalls
  /\ IF ~is_empty_stack(m_stack)
       THEN /\ p_last' = PCall("top", NULL, top(m_stack))
            /\ UNCHANGED assert_failed
       ELSE /\ p_last' = PCall("top", NULL, NULL)
            /\ assert_failed' = TRUE
  /\ p_calls' = p_calls + 1
  /\ UNCHANGED <<m_stack, p_live, p_clock>>
  /\ UNCHANGED <<tvars, lvars>>

\* AATreePtrStackImpl::pop
StackPop ==
  /\ ~assert_failed
  /\ p_calls < MaxCalls
  /\ IF ~is_empty_stack(m_stack)
       THEN /\ p_last'  = PCall("pop", NULL, top(m_stack))
            /\ m_stack' = pop(m_stack)
            /\ p_live'  = p_live \ {Newest(p_live)}
            /\ UNCHANGED assert_failed
       ELSE /\ p_last' = PCall("pop", NULL, NULL)
            /\ assert_failed' = TRUE
            /\ UNCHANGED <<m_stack, p_live>>
  /\ p_calls' = p_calls + 1
  /\ UNCHANGED p_clock
  /\ UNCHANGED <<tvars, lvars>>

NextStack ==
  \/ \E p \in Nodes : StackPush(p)
  \/ StackTop
  \/ StackPop

SpecStack == StackFilledInit /\ [][NextStack]_vars

\* ----- C28 --------------------------------------------------------------------
\* C28: a push on a stack that holds AA_TREE_MAX_HEIGHT entries calls the
\* assertion hook and leaves the entries and their number as they were; top or
\* pop on an empty stack calls the hook; every other call does not call it,
\* a pop (and a top) returns the most recent push not popped yet, and the
\* number of entries stays within 0..AA_TREE_MAX_HEIGHT.
C28_BoundedStack ==
  [][ /\ (p_last'.op = "push" /\ Len(m_stack) = AA_TREE_MAX_HEIGHT) =>
           /\ assert_failed'
           /\ m_stack' = m_stack
      /\ (p_last'.op \in {"top", "pop"} /\ Len(m_stack) = 0) => assert_failed'
      /\ ~ \/ p_last'.op = "push" /\ Len(m_stack) = AA_TREE_MAX_HEIGHT
           \/ p_last'.op \in {"top", "pop"} /\ Len(m_stack) = 0
         => /\ ~assert_failed'
            /\ p_last'.op \in {"top", "pop"} => p_last'.ret = Newest(p_live).p
            /\ p_last'.op = "pop" => Len(m_stack') = Len(m_stack) - 1
            /\ p_last'.op = "push" => /\ Len(m_stack') = Len(m_stack) + 1
                                      /\ top(m_stack') = p_last'.p
            /\ Len(m_stack') \in 0..AA_TREE_MAX_HEIGHT ]_vars

\* a push on a full stack has called the hook
C28_Witness ==
  /\ p_last.op = "push"
  /\ assert_failed
  /\ Len(m_stack) = AA_TREE_MAX_HEIGHT

\* ----- C29 --------------------------------------------------------------------
\* C29: in every reachable state m_nil has level 0 and the child links its
\* constructor gave it (no operation has written it); while the tree exists,
\* m_root is m_nil when the tree holds no node and is never null, every child
\* link of a node in the tree is a node or m_nil and never null, and every
\* node in the tree has level 1 or more.
C29_NilSentinel ==
  /\ m_level[NIL] = 0
  /\ m_left[NIL] = NULL
  /\ m_right[NIL] = NULL
  /\ alive =>
       /\ m_root # NULL
       /\ (S = {} => m_root = NIL)
       /\ \A n \in TreeNodes :
            /\ m_left[n] # NULL
            /\ m_right[n] # NULL
            /\ m_level[n] >= 1

\* a remove has rebalanced a tree that still has nodes, one of them a leaf
C29_Witness ==
  /\ alive
  /\ last.op = "remove"
  /\ last.ret = TRUE
  /\ Cardinality(TreeNodes) >= 2
  /\ \E n \in TreeNodes : m_left[n] = NIL /\ m_right[n] = NIL

\* ----- C30 --------------------------------------------------------------------
\* the number of walks of at most d nodes that start at n, follow child links
\* and end at x
RECURSIVE WalksTo(_, _, _, _)
WalksTo(h, n, x, d) ==
  IF n = NIL \/ n = NULL \/ d = 0 THEN 0
  ELSE (IF n = x THEN 1 ELSE 0)
       + WalksTo(h, h.left[n], x, d - 1) + WalksTo(h, h.right[n], x, d - 1)

\* C30: after every insert and remove the nodes reachable from m_root form a
\* tree: each of them is reached from m_root by exactly one path, none is
\* found below itself, and their number is the number of inserts that returned
\* true minus the number of removes that returned true.
C30_IsTree ==
  (alive /\ last.op \in {"insert", "remove"}) =>
    /\ \A n \in TreeNodes :
         /\ WalksTo(Heap, m_root, n, NumNodes + 1) = 1
         /\ n \notin NodesBelow(Heap, m_left[n]) \cup NodesBelow(Heap, m_right[n])
    /\ Cardinality(TreeNodes) = net_inserts

\* a remove that returned true has left three nodes in the tree
C30_Witness ==
  /\ alive
  /\ last.op = "remove"
  /\ last.ret = TRUE
  /\ net_inserts = 3
  /\ Cardinality(TreeNodes) = 3

\* ----- C31 --------------------------------------------------------------------
\* the nodes below and at n, every node after the nodes of its two subtrees
RECURSIVE PostOrder(_, _, _)
PostOrder(h, n, d) ==
  IF n = NIL \/ n = NULL \/ d = 0 THEN <<>>
  ELSE PostOrder(h, h.left[n], d - 1) \o PostOrder(h, h.right[n], d - 1) \o <<n>>

\* the nodes on the way from n down to x, n first; x is below or at n
RECURSIVE NodePath(_, _, _, _)
NodePath(h, n, x, d) ==
  IF n = NIL \/ n = NULL \/ d = 0 THEN <<>>
  ELSE IF n = x THEN <<n>>
  ELSE IF x \in Subtree(h, h.left[n], d) THEN <<n>> \o NodePath(h, h.left[n], x, d - 1)
  ELSE <<n>> \o NodePath(h, h.right[n], x, d - 1)

\* C31: between the calls on a postfix iterator its stack is the path from
\* root (bottom) to the node the next call returns (top), and is empty when
\* all nodes are returned; an entry carries the left (right) flag only when
\* every node of the left (right) subtree of its node has been returned; a
\* next() passes its assertions: the node it pops has both subtrees returned or
\* nil, and the parent it comes back to has its left subtree returned or nil.
C31_PostfixStack ==
  [][ (alive' /\ iter'.kind = "postfix") =>
        /\ \A po \in {PostOrder(Heap', m_root', NumNodes)} :
             /\ iter'.out = SubSeq(po, 1, Len(iter'.out))
             /\ [i \in 1..Len(iter'.stack) |-> NodeAt(clean_ptr(iter'.stack[i]))] =
                  IF Len(iter'.out) < Len(po)
                    THEN NodePath(Heap', m_root', po[Len(iter'.out) + 1], NumNodes)
                    ELSE <<>>
        /\ \A i \in 1..Len(iter'.stack) :
             \E p \in {iter'.stack[i]} :
               /\ p % 2 # 0 =>
                    /\ m_left'[NodeAt(p)] # NIL
                    /\ NodesBelow(Heap', m_left'[NodeAt(p)]) \subseteq Range(iter'.out)
               /\ (p \div 2) % 2 # 0 =>
                    /\ m_right'[NodeAt(p)] # NIL
                    /\ NodesBelow(Heap', m_right'[NodeAt(p)]) \subseteq Range(iter'.out)
        /\ (iter.kind = "postfix" /\ last'.op = "next") =>
             /\ ~assert_failed'
             /\ last'.node = NodeAt(clean_ptr(top(iter.stack)))
             /\ is_left_visited(Heap, top(iter.stack))
             /\ is_right_visited(Heap, top(iter.stack))
             /\ NodesBelow(Heap, m_left[last'.node]) \subseteq Range(iter.out)
             /\ NodesBelow(Heap, m_right[last'.node]) \subseteq Range(iter.out)
             /\ Len(iter.stack) >= 2 =>
                  \E parent \in {iter'.stack[Len(iter.stack) - 1]} :
                    /\ NodeAt(clean_ptr(parent)) = NodeAt(clean_ptr(iter.stack[Len(iter.stack) - 1]))
                    /\ is_left_visited(Heap, parent)
                    /\ NodesBelow(Heap, m_left[NodeAt(clean_ptr(parent))])
                         \subseteq Range(iter'.out) ]_vars

\* between two calls an entry below the top carries the left flag alone: the
\* walk has come back from a left subtree and gone down into the right one
C31_Witness ==
  /\ iter.kind = "postfix"
  /\ Len(iter.out) >= 1
  /\ \E i \in 1..(Len(iter.stack) - 1) : iter.stack[i] % 4 = LEFT_VISITED

\* ----- C32 --------------------------------------------------------------------
\* C32: between the calls on an in-order iterator its stack is the path from
\* root (bottom) to the node the next call returns (top), nodes already
\* returned that the path leaves by a right link included; after next() has
\* returned x the top is the node with the least key above x's, and the stack
\* is empty when x holds the greatest key, so has_next() is true exactly while
\* nodes remain to be returned.
C32_InOrderStack ==
  [][ (alive' /\ iter'.kind = "inorder") =>
        /\ \A io \in {InOrder(Heap', m_root', NumNodes)} :
             /\ iter'.out = SubSeq(io, 1, Len(iter'.out))
             /\ iter'.stack =
                  IF Len(iter'.out) < Len(io)
                    THEN NodePath(Heap', m_root', io[Len(iter'.out) + 1], NumNodes)
                    ELSE <<>>
        /\ iter_has_next(iter'.stack) <=> (Range(iter'.out) # TreeNodes')
        /\ (iter.kind = "inorder" /\ last'.op = "next") =>
             \E x \in {last'.node} :
               /\ ~assert_failed'
               /\ x = top(iter.stack)
               /\ IF iter_has_next(iter'.stack)
                    THEN \E s \in {top(iter'.stack)} :
                           /\ s \in TreeNodes
                           /\ less_than_fn(m_val[x], m_val[s])
                           /\ \A n \in TreeNodes :
                                less_than_fn(m_val[x], m_val[n]) =>
                                  ~less_than_fn(m_val[n], m_val[s])
                    ELSE \A n \in TreeNodes : ~less_than_fn(m_val[x], m_val[n]) ]_vars

\* next() has returned a node without a right child that is not the left
\* child of the node now on top: it went up through a right link
C32_Witness ==
  /\ iter.kind = "inorder"
  /\ last.op = "next"
  /\ iter_has_next(iter.stack)
  /\ m_right[last.node] = NIL
  /\ m_left[top(iter.stack)] # last.node

\* ----- C33 --------------------------------------------------------------------
\* C33: a remove(key) on a tree in which no node compares equal to key returns
\* false, leaves m_root and the left link, right link, level and key of every
\* node as they were, and calls neither free_node nor copy_contents.
C33_RemoveAbsent ==
  [][ (last'.op = "remove" /\
       \A n \in TreeNodes : less_than_fn(last'.key, m_val[n]) \/
                            less_than_fn(m_val[n], last'.key)) =>
        /\ last'.ret = FALSE
        /\ m_root' = m_root
        /\ m_left' = m_left
        /\ m_right' = m_right
        /\ m_level' = m_level
        /\ m_val' = m_val
        /\ status' = status
        /\ freed' = <<>>
        /\ copied' = <<>>
        /\ ~assert_failed' ]_vars

\* a remove has returned false for a key that lies between two keys of a tree
\* of three or more nodes
C33_Witness ==
  /\ alive
  /\ last.op = "remove"
  /\ last.ret = FALSE
  /\ Cardinality(TreeNodes) >= 3
  /\ \E a, b \in TreeNodes : /\ less_than_fn(m_val[a], last.key)
                             /\ less_than_fn(last.key, m_val[b])

\* ----- C34 --------------------------------------------------------------------
\* C34: the node a remove finds never has a left child and no right child (the
\* branch "right subtree is empty" is not taken), and when it has a right
\* child and no left child, that right child is a leaf.
C34_SingleChildShape ==
  [][ last'.op = "remove" =>
        \A t \in TreeNodes :
          (~less_than_fn(last'.key, m_val[t]) /\ ~less_than_fn(m_val[t], last'.key)) =>
            /\ ~(m_left[t] # NIL /\ m_right[t] = NIL)
            /\ (m_left[t] = NIL /\ m_right[t] # NIL) =>
                 /\ m_left[m_right[t]] = NIL
                 /\ m_right[m_right[t]] = NIL ]_vars

====
